---- MODULE Spec2Model ----
(***************************************************************************)
(* Post-detection reasoning and safety pipeline of /api/analyze:           *)
(* detection filter -> semantic reasoner -> element validator ->           *)
(* environment analyzer -> safety classifier -> activity builder ->        *)
(* activity safety validator -> activity refiner.                          *)
(*                                                                         *)
(* Labels are strings; the JavaScript string operations the code uses      *)
(* (split, trim, toLowerCase, replace, includes) are computed character    *)
(* by character.  Probabilities are integers in hundredths, processed     *)
(* confidences integers in units of 1/10000.                               *)
(***************************************************************************)
EXTENDS Integers, Sequences, FiniteSets, TLC

VARIABLES pc, predictions, age, requestedCount, filteredPredictions, reasonedElements,
          validatedLabels, validatedReasonedElements, elements,
          envActivities, validatedActivities, refined,
          args, returned,
          modelPromise, loads, requests

vars == <<pc, predictions, age, requestedCount, filteredPredictions, reasonedElements,
          validatedLabels, validatedReasonedElements, elements,
          envActivities, validatedActivities, refined, args, returned,
          modelPromise, loads, requests>>

(***************************************************************************)
(* Generic sequence helpers.                                               *)
(***************************************************************************)
Range(s) == {s[i] : i \in DOMAIN s}

Min(a, b) == IF a < b THEN a ELSE b

Max(a, b) == IF a > b THEN a ELSE b

\* Array.prototype.includes
InSeq(x, s) == \E i \in DOMAIN s : s[i] = x

\* [...new Set(s)]: first occurrences, in insertion order
RECURSIVE DedupSeq(_)
DedupSeq(s) ==
    IF s = <<>> THEN <<>>
    ELSE LET front == DedupSeq(SubSeq(s, 1, Len(s) - 1))
             last == s[Len(s)]
         IN IF \E i \in DOMAIN front : front[i] = last THEN front ELSE Append(front, last)

\* All orders of a sequence (the outcomes of sort(() => Math.random() - 0.5))
Shuffles(s) == {[i \in 1..Len(s) |-> s[p[i]]] : p \in Permutations(1..Len(s))}

(***************************************************************************)
(* JavaScript string operations.                                           *)
(***************************************************************************)
CharAt(s, i) == SubSeq(s, i, i)

\* String.prototype.includes
Includes(s, k) == \E i \in 1..(Len(s) - Len(k) + 1) : SubSeq(s, i, i + Len(k) - 1) = k

IsSpace(c) == c = " "

UpperCase == <<"A", "B", "C", "D", "E", "F", "G", "H", "I", "J", "K", "L", "M",
               "N", "O", "P", "Q", "R", "S", "T", "U", "V", "W", "X", "Y", "Z">>

LowerCase == <<"a", "b", "c", "d", "e", "f", "g", "h", "i", "j", "k", "l", "m",
               "n", "o", "p", "q", "r", "s", "t", "u", "v", "w", "x", "y", "z">>

\* The lower-case letter of each upper-case letter
LowerOf == [c \in Range(UpperCase) |-> LowerCase[CHOOSE i \in 1..26 : UpperCase[i] = c]]

LowerChar(c) == IF c \in DOMAIN LowerOf THEN LowerOf[c] ELSE c

\* String.prototype.toLowerCase
RECURSIVE ToLowerCase(_)
ToLowerCase(s) == IF Len(s) = 0 THEN ""
                  ELSE LowerChar(CharAt(s, 1)) \o ToLowerCase(SubSeq(s, 2, Len(s)))

\* s.split(',')[0]
FirstSegment(s) ==
    IF \E i \in 1..Len(s) : CharAt(s, i) = ","
    THEN LET c == CHOOSE i \in 1..Len(s) :
                      /\ CharAt(s, i) = ","
                      /\ \A j \in 1..(i - 1) : CharAt(s, j) /= ","
         IN SubSeq(s, 1, c - 1)
    ELSE s

\* String.prototype.trim
RECURSIVE Trim(_)
Trim(s) == IF Len(s) = 0 THEN s
           ELSE IF IsSpace(CharAt(s, 1)) THEN Trim(SubSeq(s, 2, Len(s)))
           ELSE IF IsSpace(CharAt(s, Len(s))) THEN Trim(SubSeq(s, 1, Len(s) - 1))
           ELSE s

\* s.replace(/\s+/g, r): every run of whitespace becomes one r
RECURSIVE ReplaceSpaces(_, _)
ReplaceSpaces(s, r) ==
    IF Len(s) = 0 THEN ""
    ELSE IF IsSpace(CharAt(s, 1))
         THEN IF Len(s) >= 2 /\ IsSpace(CharAt(s, 2))
              THEN ReplaceSpaces(SubSeq(s, 2, Len(s)), r)
              ELSE r \o ReplaceSpaces(SubSeq(s, 2, Len(s)), r)
         ELSE CharAt(s, 1) \o ReplaceSpaces(SubSeq(s, 2, Len(s)), r)

\* s.replace(/c/g, ''): every occurrence of the character c removed
RECURSIVE RemoveAll(_, _)
RemoveAll(s, c) ==
    IF Len(s) = 0 THEN ""
    ELSE (IF CharAt(s, 1) = c THEN "" ELSE CharAt(s, 1)) \o RemoveAll(SubSeq(s, 2, Len(s)), c)

\* s.replace('c', ''): a string pattern, so only the first occurrence is removed
RemoveFirst(s, c) ==
    IF \E i \in 1..Len(s) : CharAt(s, i) = c
    THEN LET p == CHOOSE i \in 1..Len(s) :
                      /\ CharAt(s, i) = c
                      /\ \A j \in 1..(i - 1) : CharAt(s, j) /= c
         IN SubSeq(s, 1, p - 1) \o SubSeq(s, p + 1, Len(s))
    ELSE s

\* keys.some(k => s.includes(k))
SomeIncluded(s, keys) == \E i \in DOMAIN keys : Includes(s, keys[i])

\* table[key] ?? default, for a table given as <<key, value>> entries
Lookup(table, key, default) ==
    IF \E i \in DOMAIN table : table[i][1] = key
    THEN table[CHOOSE i \in DOMAIN table : table[i][1] = key][2]
    ELSE default

(***************************************************************************)
(* environment.ts: attribute tables and analyzeEnvironment.                *)
(***************************************************************************)
SR == "sensory_regulation"
MP == "motor_planning"
EF == "executive_function"
FM == "fine_motor"
GM == "gross_motor"
BC == "bilateral_coordination"

HEIGHT_MAP == <<
    <<"couch", "low">>, <<"sofa", "low">>, <<"chair", "mid">>, <<"table", "table">>,
    <<"desk", "table">>, <<"bed", "low">>, <<"bench", "mid">>, <<"stool", "mid">>,
    <<"stairs", "elevated">>, <<"step", "mid">>, <<"ball", "floor">>,
    <<"carpet", "floor">>, <<"rug", "floor">>, <<"floor", "floor">>,
    <<"pillow", "low">>, <<"blanket", "low">>, <<"lamp", "table">>, <<"book", "table">>,
    <<"door", "elevated">>, <<"window", "elevated">>, <<"wall", "elevated">> >>

STABILITY_MAP == <<
    <<"couch", "stable">>, <<"sofa", "stable">>, <<"chair", "stable">>,
    <<"table", "stable">>, <<"desk", "stable">>, <<"bed", "stable">>,
    <<"bench", "stable">>, <<"stairs", "fixed">>, <<"ball", "mobile">>,
    <<"carpet", "stable">>, <<"rug", "stable">>, <<"floor", "fixed">>,
    <<"pillow", "mobile">>, <<"blanket", "mobile">>, <<"bike", "mobile">>,
    <<"bicycle", "mobile">> >>

TEXTURE_MAP == <<
    <<"couch", "soft">>, <<"sofa", "soft">>, <<"pillow", "soft">>, <<"blanket", "soft">>,
    <<"carpet", "soft">>, <<"rug", "soft">>, <<"ball", "smooth">>, <<"table", "hard">>,
    <<"chair", "hard">>, <<"desk", "hard">>, <<"floor", "hard">>, <<"wall", "hard">> >>

MOTOR_MAP == <<
    <<"couch", <<GM, SR>> >>,
    <<"sofa", <<GM, SR>> >>,
    <<"chair", <<GM, FM, BC>> >>,
    <<"table", <<FM, BC, EF>> >>,
    <<"desk", <<FM, EF>> >>,
    <<"ball", <<GM, BC, MP>> >>,
    <<"stairs", <<GM, MP>> >>,
    <<"carpet", <<GM, SR, MP>> >>,
    <<"rug", <<GM, SR>> >>,
    <<"bed", <<GM, SR>> >>,
    <<"pillow", <<FM, SR, BC>> >>,
    <<"blanket", <<BC, FM, SR>> >> >>

\* The risk phrases are Arabic text in the source; each is named here by its key.
RISK_MAP == <<
    <<"stairs", <<"risk_fall_on_stairs">> >>,
    <<"step", <<"risk_tripping">> >>,
    <<"bike", <<"risk_bike_motion">> >>,
    <<"bicycle", <<"risk_bike_motion">> >>,
    <<"lamp", <<"risk_heat_or_cord">> >>,
    <<"window", <<"risk_near_window">> >>,
    <<"door", <<"risk_door_motion">> >> >>

POSITION_OPTIONS == <<"central", "against_wall", "corner", "edge", "open">>

normalizeLabel(label) == ReplaceSpaces(ToLowerCase(Trim(FirstSegment(label))), "_")

\* for (const [key, value] of Object.entries(table))
\*     if (base.includes(key) || key.includes(base)) return value;
\* from entry i on; default when the loop ends
RECURSIVE FirstFuzzyFrom(_, _, _, _)
FirstFuzzyFrom(table, i, base, default) ==
    IF i > Len(table) THEN default
    ELSE IF Includes(base, table[i][1]) \/ Includes(table[i][1], base) THEN table[i][2]
    ELSE FirstFuzzyFrom(table, i + 1, base, default)

FirstFuzzy(table, base, default) == FirstFuzzyFrom(table, 1, base, default)

\* A lookup that ignores MOTOR_MAP and always answers the default triad
getMotorDefaultOnly(label) == <<FM, GM, BC>>

getMotorForLabel(label) ==
    FirstFuzzy(MOTOR_MAP, RemoveFirst(normalizeLabel(label), "_"), <<FM, GM, BC>>)

getRisksForLabel(label) == FirstFuzzy(RISK_MAP, normalizeLabel(label), <<>>)

MAX_ENVIRONMENT_ELEMENTS == 5

\* const base / const key of the loop body of analyzeEnvironment
AnalyzeBase(raw) == ToLowerCase(Trim(FirstSegment(raw)))

\* A key that keeps the case of the label
AnalyzeKeyKeepingCase(raw) == ReplaceSpaces(Trim(FirstSegment(raw)), "")

AnalyzeKey(raw) == ReplaceSpaces(AnalyzeBase(raw), "")

\* The element pushed for raw when `count` elements were pushed before it.
\* safety is the optional _safety field: <<>> until enrichElementsWithSafety.
MakeElement(raw, count) ==
    LET base == AnalyzeBase(raw)
        height == Lookup(HEIGHT_MAP, base,
                         IF Includes(base, "ball") \/ Includes(base, "block")
                         THEN "floor" ELSE "mid")
        texture == Lookup(TEXTURE_MAP, base, "unknown")
    IN [objectLabel |-> raw,
        position |-> POSITION_OPTIONS[(count % Len(POSITION_OPTIONS)) + 1],
        height |-> height,
        stability |-> Lookup(STABILITY_MAP, base, "stable"),
        space |-> IF count < 2 THEN "spacious"
                  ELSE IF count < 4 THEN "moderate" ELSE "constrained",
        texture |-> texture,
        motor |-> getMotorForLabel(raw),
        sensory |-> <<"tactile", "visual">>
                    \o (IF height = "elevated" \/ Includes(base, "stairs")
                           \/ Includes(base, "step")
                        THEN <<"vestibular", "proprioceptive">> ELSE <<>>)
                    \o (IF texture /= "unknown" THEN <<"tactile">> ELSE <<>>),
        risks |-> getRisksForLabel(raw),
        safety |-> <<>>]

\* The for loop of analyzeEnvironment from index i (1-based) on
RECURSIVE AnalyzeLoop(_, _, _, _, _)
AnalyzeLoop(labels, n, i, seen, acc) ==
    IF ~(i <= n /\ Len(acc) < MAX_ENVIRONMENT_ELEMENTS) THEN acc
    ELSE LET key == AnalyzeKey(labels[i])
         IN IF key \in seen
            THEN AnalyzeLoop(labels, n, i + 1, seen, acc)
            ELSE AnalyzeLoop(labels, n, i + 1, seen \cup {key},
                             Append(acc, MakeElement(labels[i], Len(acc))))

\* An analyzer that makes up a placeholder element when it is given no label
analyzeEnvironmentWithPlaceholder(labels) ==
    IF Len(labels) = 0 THEN AnalyzeLoop(<<"room">>, 1, 1, {}, <<>>)
    ELSE AnalyzeLoop(labels, Min(Len(labels), MAX_ENVIRONMENT_ELEMENTS), 1, {}, <<>>)

analyzeEnvironment(labels) ==
    AnalyzeLoop(labels, Min(Len(labels), MAX_ENVIRONMENT_ELEMENTS), 1, {}, <<>>)

(***************************************************************************)
(* safety-validation.ts: classification, age feasibility, activity check.  *)
(***************************************************************************)
FIXED_HEAVY_LABELS == <<"sofa", "couch", "bed", "wardrobe", "bookcase", "cabinet",
                        "dining table", "table", "desk", "stairs", "door", "wall",
                        "refrigerator", "bathtub", "tub">>

LARGE_MOVABLE_LABELS == <<"bench", "ottoman", "mattress", "coffee table">>

SMALL_MANIPULABLE_LABELS == <<"pillow", "blanket", "ball", "book", "lamp", "cushion",
                              "box", "basket", "toy", "doll", "block", "cube", "remote",
                              "phone", "cup", "plate", "bowl">>

ELEVATED_UNSTABLE_LABELS == <<"stairs", "step", "stool", "window", "lamp">>

FLOOR_SAFE_LABELS == <<"carpet", "rug", "floor", "ball">>

\* The secondary substring check of the fixed/heavy branch
FIXED_HEAVY_BASE_TERMS == <<"sofa", "couch", "bed", "wardrobe", "bookcase", "table",
                            "desk", "stairs", "door", "wall", "refrigerator", "tub">>

HEAVY_FORBIDDEN == <<"lift", "drag", "push", "high_force">>

HEAVY_HINTS == <<"crawl_around", "navigate_between", "reach_over",
                 "use_cushions_or_floor", "supported_weight_bearing">>

normalizeForSafety(label) ==
    RemoveAll(ReplaceSpaces(ToLowerCase(Trim(FirstSegment(label))), "_"), "-")

labelMatches(label, keys) ==
    LET normalized == RemoveAll(normalizeForSafety(label), "_")
    IN \E i \in DOMAIN keys :
          LET k == ReplaceSpaces(keys[i], "")
          IN Includes(normalized, k) \/ Includes(k, normalized)

classifyElementForSafety(element) ==
    LET label == element.objectLabel
        base == normalizeForSafety(label)
        fixedHeavy == /\ labelMatches(label, FIXED_HEAVY_LABELS) \/ element.stability = "fixed"
                      /\ SomeIncluded(base, FIXED_HEAVY_BASE_TERMS)
        largeMovable == labelMatches(label, LARGE_MOVABLE_LABELS) /\ ~fixedHeavy
        small == labelMatches(label, SMALL_MANIPULABLE_LABELS)
        elevated == element.height = "elevated" \/ labelMatches(label, ELEVATED_UNSTABLE_LABELS)
        floorSafe == element.height = "floor" \/ labelMatches(label, FLOOR_SAFE_LABELS)
        classes0 == (IF fixedHeavy THEN <<"fixed_heavy_furniture">> ELSE <<>>)
                    \o (IF largeMovable THEN <<"large_movable">> ELSE <<>>)
                    \o (IF small THEN <<"small_manipulable">> ELSE <<>>)
                    \o (IF elevated THEN <<"elevated_unstable">> ELSE <<>>)
                    \o (IF floorSafe THEN <<"floor_safe">> ELSE <<>>)
        classes == IF Len(classes0) = 0 THEN <<"small_manipulable">> ELSE classes0
        forbidden == (IF fixedHeavy THEN HEAVY_FORBIDDEN ELSE <<>>)
                     \o (IF largeMovable THEN HEAVY_FORBIDDEN ELSE <<>>)
                     \o (IF elevated THEN <<"climb_unstable", "jump_from_height">> ELSE <<>>)
        hints0 == (IF fixedHeavy THEN HEAVY_HINTS ELSE <<>>)
                  \o (IF largeMovable THEN HEAVY_HINTS ELSE <<>>)
        hints == hints0 \o (IF elevated /\ Len(hints0) = 0
                            THEN <<"navigate_between", "reach_over", "supported_weight_bearing">>
                            ELSE <<>>)
    IN [classes |-> classes,
        forbiddenActions |-> DedupSeq(forbidden),
        safeActionHints |-> DedupSeq(hints),
        useSafeAlternativesOnly |-> InSeq("fixed_heavy_furniture", classes)
                                    \/ InSeq("large_movable", classes)]

enrichElementsWithSafety(els) ==
    [i \in DOMAIN els |-> [els[i] EXCEPT !.safety = <<classifyElementForSafety(els[i])>>]]

\* element._safety: <<>> when undefined, <<meta>> otherwise
getSafetyMetadata(element) == element.safety

\* The age bands with the two oldest exchanged
getAgeFeasibilityBandsExchanged(a) ==
    IF a < 3 THEN [maxStrengthDemand |-> "minimal", maxBalanceComplexity |-> "static_only",
                   maxMotorPlanningLoad |-> "single_step",
                   allowElevatedSurfaces |-> FALSE, allowUnstableSurfaces |-> FALSE]
    ELSE IF a < 5 THEN [maxStrengthDemand |-> "light", maxBalanceComplexity |-> "simple_dynamic",
                        maxMotorPlanningLoad |-> "two_steps",
                        allowElevatedSurfaces |-> FALSE, allowUnstableSurfaces |-> FALSE]
    ELSE IF a < 8 THEN [maxStrengthDemand |-> "full", maxBalanceComplexity |-> "complex",
                        maxMotorPlanningLoad |-> "multi_step",
                        allowElevatedSurfaces |-> TRUE, allowUnstableSurfaces |-> FALSE]
    ELSE [maxStrengthDemand |-> "moderate", maxBalanceComplexity |-> "moderate_dynamic",
          maxMotorPlanningLoad |-> "three_steps",
          allowElevatedSurfaces |-> FALSE, allowUnstableSurfaces |-> FALSE]

getAgeFeasibility(a) ==
    IF a < 3 THEN [maxStrengthDemand |-> "minimal", maxBalanceComplexity |-> "static_only",
                   maxMotorPlanningLoad |-> "single_step",
                   allowElevatedSurfaces |-> FALSE, allowUnstableSurfaces |-> FALSE]
    ELSE IF a < 5 THEN [maxStrengthDemand |-> "light", maxBalanceComplexity |-> "simple_dynamic",
                        maxMotorPlanningLoad |-> "two_steps",
                        allowElevatedSurfaces |-> FALSE, allowUnstableSurfaces |-> FALSE]
    ELSE IF a < 8 THEN [maxStrengthDemand |-> "moderate", maxBalanceComplexity |-> "moderate_dynamic",
                        maxMotorPlanningLoad |-> "three_steps",
                        allowElevatedSurfaces |-> FALSE, allowUnstableSurfaces |-> FALSE]
    ELSE [maxStrengthDemand |-> "full", maxBalanceComplexity |-> "complex",
          maxMotorPlanningLoad |-> "multi_step",
          allowElevatedSurfaces |-> TRUE, allowUnstableSurfaces |-> FALSE]

\* FOCUS_IMPLIES_FORCE[focus]
FOCUS_IMPLIES_FORCE(focus) == focus \in {MP, FM, BC, EF}

\* A check whose age rule on elevated elements forgets motor_planning
isActivitySafeElevatedGrossMotorOnly(objectLabel, therapeuticFocus, element, a, safetyMeta) ==
    LET feasibility == getAgeFeasibility(a)
    IN IF safetyMeta.useSafeAlternativesOnly /\ FOCUS_IMPLIES_FORCE(therapeuticFocus)
       THEN FALSE
       ELSE IF InSeq("elevated_unstable", safetyMeta.classes)
            THEN IF ~feasibility.allowElevatedSurfaces /\ therapeuticFocus = GM
                 THEN FALSE
                 ELSE IF InSeq("climb_unstable", safetyMeta.forbiddenActions)
                         /\ therapeuticFocus = GM
                      THEN FALSE
                      ELSE TRUE
            ELSE TRUE

isActivitySafe(objectLabel, therapeuticFocus, element, a, safetyMeta) ==
    LET feasibility == getAgeFeasibility(a)
    IN IF safetyMeta.useSafeAlternativesOnly /\ FOCUS_IMPLIES_FORCE(therapeuticFocus)
       THEN FALSE
       ELSE IF InSeq("elevated_unstable", safetyMeta.classes)
            THEN IF ~feasibility.allowElevatedSurfaces /\ therapeuticFocus \in {GM, MP}
                 THEN FALSE
                 ELSE IF InSeq("climb_unstable", safetyMeta.forbiddenActions)
                         /\ therapeuticFocus = GM
                      THEN FALSE
                      ELSE TRUE
            ELSE TRUE

ALL_FOCUSES == <<SR, MP, EF, FM, GM, BC>>

(***************************************************************************)
(* environment.ts: the activity builder.                                   *)
(***************************************************************************)
ALL_THERAPEUTIC_FOCUSES == <<SR, MP, EF, FM, GM, BC>>

DIVERSITY_BUCKETS == <<GM, FM, SR, EF, MP, BC>>

\* The value null of a TherapeuticFocus | null
Null == "null"

\* `${objectLabel}-${focus}`
PairKey(objectLabel, focus) == objectLabel \o "-" \o focus

\* The first element of s satisfying Test, or Null
FirstOr(s, Test(_)) ==
    LET hits == SelectSeq(s, Test)
    IN IF Len(hits) > 0 THEN hits[1] ELSE Null

\* The indices 1..Len(s), in order
Indices(s) == [i \in 1..Len(s) |-> i]

\* The first index of s satisfying Test, or 0
FirstIndexOr0(s, Test(_)) ==
    LET hits == SelectSeq(Indices(s), Test)
    IN IF Len(hits) > 0 THEN hits[1] ELSE 0

\* for (const f of order) { if (!allowed.includes(f)) continue;
\*                          if (usedFocuses.has(f)) continue; return f; }
\* from index i on; Null when the loop ends
RECURSIVE FirstUnusedFocus(_, _, _, _)
FirstUnusedFocus(order, i, allowed, usedFocuses) ==
    IF i > Len(order) THEN Null
    ELSE IF InSeq(order[i], allowed) /\ order[i] \notin usedFocuses THEN order[i]
    ELSE FirstUnusedFocus(order, i + 1, allowed, usedFocuses)

\* A pick that takes the first unused focus of the preferred order whether
\* or not the element affords it
pickFocusIgnoringAffordances(element, usedFocuses, preferredOrder) ==
    FirstUnusedFocus(preferredOrder, 1, ALL_THERAPEUTIC_FOCUSES, usedFocuses)

pickFocusForElement(element, usedFocuses, preferredOrder) ==
    LET allowed == IF Len(element.motor) > 0 THEN element.motor ELSE ALL_THERAPEUTIC_FOCUSES
        fit == FirstUnusedFocus(preferredOrder, 1, allowed, usedFocuses)
    IN IF fit /= Null THEN fit
       ELSE FirstUnusedFocus(allowed, 1, allowed, usedFocuses)

Candidate(element, focus) ==
    [objectLabel |-> element.objectLabel, therapeuticFocus |-> focus, element |-> element]

\* An inner loop that gives up after the first element it looks at
FirstPairingHeadOnly(i, shuffledElements, usedFocuses, usedKeys, preferredOrder) ==
    IF i > Len(shuffledElements) THEN 0
    ELSE LET focus == pickFocusForElement(shuffledElements[i], usedFocuses, preferredOrder)
         IN IF focus /= Null
               /\ PairKey(shuffledElements[i].objectLabel, focus) \notin usedKeys
            THEN i
            ELSE 0

\* The inner loop over shuffledElements from index i on: the index of the
\* first element with a pickable focus whose key is unused; 0 when the loop
\* ends without a break.
RECURSIVE FirstPairingFrom(_, _, _, _, _)
FirstPairingFrom(i, shuffledElements, usedFocuses, usedKeys, preferredOrder) ==
    IF i > Len(shuffledElements) THEN 0
    ELSE LET focus == pickFocusForElement(shuffledElements[i], usedFocuses, preferredOrder)
         IN IF focus /= Null
               /\ PairKey(shuffledElements[i].objectLabel, focus) \notin usedKeys
            THEN i
            ELSE FirstPairingFrom(i + 1, shuffledElements, usedFocuses, usedKeys,
                                  preferredOrder)

FirstPairing(shuffledElements, usedFocuses, usedKeys, preferredOrder) ==
    FirstPairingFrom(1, shuffledElements, usedFocuses, usedKeys, preferredOrder)

\* A push that forgets usedKeys.add(...)
PushPairingKeyForgotten(st, el, focus, markFocus) ==
    [activities |-> Append(st.activities, Candidate(el, focus)),
     usedFocuses |-> IF markFocus THEN st.usedFocuses \cup {focus} ELSE st.usedFocuses,
     usedKeys |-> st.usedKeys]

\* activities.push(...) and usedKeys.add(...) for the pairing (el, focus);
\* usedFocuses.add(focus) only on the first path (markFocus)
PushPairing(st, el, focus, markFocus) ==
    [activities |-> Append(st.activities, Candidate(el, focus)),
     usedFocuses |-> IF markFocus THEN st.usedFocuses \cup {focus} ELSE st.usedFocuses,
     usedKeys |-> st.usedKeys \cup {PairKey(el.objectLabel, focus)}]

\* The second inner loop (focus reuse with another element) has ended at
\* index reuse of shuffledElements
AfterReuseLoop(st, shuffledElements, preferredOrder, reuse) ==
    IF reuse /= 0
    THEN PushPairing(st, shuffledElements[reuse],
                     pickFocusForElement(shuffledElements[reuse], {}, preferredOrder), FALSE)
    ELSE st

\* The first inner loop has ended at index best of shuffledElements
AfterBestLoop(st, shuffledElements, preferredOrder, best) ==
    IF best /= 0
    THEN PushPairing(st, shuffledElements[best],
                     pickFocusForElement(shuffledElements[best], st.usedFocuses,
                                         preferredOrder), TRUE)
    ELSE AfterReuseLoop(st, shuffledElements, preferredOrder,
                        FirstPairing(shuffledElements, {}, st.usedKeys, preferredOrder))

\* One iteration of the outer loop of buildActivitiesFromEnvironment on the
\* state st = [activities, usedFocuses, usedKeys]
BuildStep(st, shuffledElements, preferredOrder) ==
    AfterBestLoop(st, shuffledElements, preferredOrder,
                  FirstPairing(shuffledElements, st.usedFocuses, st.usedKeys, preferredOrder))

RECURSIVE BuildLoop(_, _, _, _)
BuildLoop(st, remaining, shuffledElements, preferredOrder) ==
    IF remaining = 0 THEN st.activities
    ELSE BuildLoop(BuildStep(st, shuffledElements, preferredOrder), remaining - 1,
                   shuffledElements, preferredOrder)

\* A target without the floor of three
targetCountWithoutFloor(els, count) ==
    Min(Min(count, 5), Min(Len(els) * 2, Len(ALL_THERAPEUTIC_FOCUSES)))

targetCount(els, count) ==
    Max(3, Min(Min(count, 5), Min(Len(els) * 2, Len(ALL_THERAPEUTIC_FOCUSES))))

\* buildActivitiesFromEnvironment with the outcomes of its two random sorts
\* (preferredOrder, shuffledElements) given; age is not read by the builder.
buildActivitiesFromEnvironment(els, a, count, preferredOrder, shuffledElements) ==
    IF Len(els) = 0 THEN <<>>
    ELSE BuildLoop([activities |-> <<>>, usedFocuses |-> {}, usedKeys |-> {}],
                   targetCount(els, count), shuffledElements, preferredOrder)

(***************************************************************************)
(* safety-validation.ts: validateAndReplaceActivities.                     *)
(***************************************************************************)
\* const safe = meta ? isActivitySafe(...) : true
CandidateIsSafe(c, a) ==
    LET meta == getSafetyMetadata(c.element)
    IN IF meta /= <<>>
       THEN isActivitySafe(c.objectLabel, c.therapeuticFocus, c.element, a, meta[1])
       ELSE TRUE

\* meta?.useSafeAlternativesOnly
MetaUseSafe(meta) == meta /= <<>> /\ meta[1].useSafeAlternativesOnly

\* First loop of the replacement: same element, another focus.  Null when
\* the loop ends with replaced = false.
SameElementFocus(c, a, used) ==
    LET meta == getSafetyMetadata(c.element)
        safeFocuses == IF MetaUseSafe(meta) THEN <<SR, GM>> ELSE ALL_FOCUSES
    IN FirstOr(safeFocuses,
               LAMBDA focus :
                  /\ ~(FOCUS_IMPLIES_FORCE(focus) /\ MetaUseSafe(meta))
                  /\ PairKey(c.objectLabel, focus) \notin used
                  /\ ~(meta /= <<>>
                       /\ ~isActivitySafe(c.objectLabel, focus, c.element, a, meta[1])))

\* A second loop that also takes elements marked useSafeAlternativesOnly
OtherElementIndexAnyElement(c, els, a, used) ==
    LET Ok(i) ==
            LET el == els[i]
                elMeta == getSafetyMetadata(el)
            IN /\ el /= c.element
               /\ PairKey(el.objectLabel, c.therapeuticFocus) \notin used
               /\ isActivitySafe(el.objectLabel, c.therapeuticFocus, el, a,
                                 IF elMeta /= <<>> THEN elMeta[1]
                                 ELSE classifyElementForSafety(el))
    IN FirstIndexOr0(els, Ok)

\* Second loop: another element with the original focus, as an index into
\* els; 0 when the loop ends with replaced = false.
OtherElementIndex(c, els, a, used) ==
    LET Ok(i) ==
            LET el == els[i]
                elMeta == getSafetyMetadata(el)
            IN /\ el /= c.element
               /\ ~MetaUseSafe(elMeta)
               /\ PairKey(el.objectLabel, c.therapeuticFocus) \notin used
               /\ isActivitySafe(el.objectLabel, c.therapeuticFocus, el, a,
                                 IF elMeta /= <<>> THEN elMeta[1]
                                 ELSE classifyElementForSafety(el))
    IN FirstIndexOr0(els, Ok)

\* Which branch the loop body takes for candidate c with `used` as it stands
ValidationBranch(c, els, a, used) ==
    IF CandidateIsSafe(c, a) THEN "safe"
    ELSE IF SameElementFocus(c, a, used) /= Null THEN "same_element"
    ELSE IF OtherElementIndex(c, els, a, used) /= 0 THEN "other_element"
    ELSE "last_resort"

\* The entry pushed once the second loop has ended with index otherIndex:
\* another element with the original focus, or (last resort) the candidate
OtherElementOrKeep(c, els, otherIndex) ==
    IF otherIndex /= 0
    THEN [objectLabel |-> els[otherIndex].objectLabel,
          therapeuticFocus |-> c.therapeuticFocus,
          element |-> els[otherIndex]]
    ELSE c

\* The entry pushed once the first loop has ended with focus sameFocus
SameElementOrOther(c, els, a, used, sameFocus) ==
    IF sameFocus /= Null
    THEN [objectLabel |-> c.objectLabel, therapeuticFocus |-> sameFocus, element |-> c.element]
    ELSE OtherElementOrKeep(c, els, OtherElementIndex(c, els, a, used))

\* The entry pushed for candidate c
ValidationOutput(c, els, a, used) ==
    IF CandidateIsSafe(c, a) THEN c
    ELSE SameElementOrOther(c, els, a, used, SameElementFocus(c, a, used))

\* result.push(out); used.add(key of out)
PushValidated(st, out) ==
    [result |-> Append(st.result, out),
     used |-> st.used \cup {PairKey(out.objectLabel, out.therapeuticFocus)}]

\* An iteration that drops a candidate it can neither keep nor replace
ValidateStepDroppingUnreplaceable(st, c, els, a) ==
    IF ValidationBranch(c, els, a, st.used) = "last_resort" THEN st
    ELSE PushValidated(st, ValidationOutput(c, els, a, st.used))

\* One iteration of the loop on the state st = [result, used]
ValidateStep(st, c, els, a) == PushValidated(st, ValidationOutput(c, els, a, st.used))

\* The loop state after the first k candidates
RECURSIVE ValidatePrefix(_, _, _, _)
ValidatePrefix(activities, els, a, k) ==
    IF k = 0 THEN [result |-> <<>>, used |-> {}]
    ELSE ValidateStep(ValidatePrefix(activities, els, a, k - 1), activities[k], els, a)

validateAndReplaceActivities(activities, els, a) ==
    ValidatePrefix(activities, els, a, Len(activities)).result

(***************************************************************************)
(* The refinement layer: refineActivities.                                 *)
(***************************************************************************)
CATEGORY(focus) ==
    CASE focus = SR -> "sensory"
      [] focus = MP -> "motor"
      [] focus = EF -> "executive"
      [] focus = FM -> "motor"
      [] focus = GM -> "motor"
      [] focus = BC -> "adl"

DEMAND(focus) ==
    CASE focus = SR -> "static"
      [] focus = MP -> "sequencing"
      [] focus = EF -> "sequencing"
      [] focus = FM -> "static"
      [] focus = GM -> "dynamic"
      [] focus = BC -> "bilateral"

NEEDS_SPACE == <<GM, MP>>

PREFERRED_FOR_UNDER_4 == <<SR, FM, GM, BC>>

LESS_SUITABLE_UNDER_4 == <<EF, MP>>

isFeasibleInSpace(c) ==
    IF c.element.space /= "constrained" THEN TRUE
    ELSE IF ~InSeq(c.therapeuticFocus, NEEDS_SPACE) THEN TRUE
    ELSE FALSE

\* (list[0] ?? next): the first entry of list when there is one
FirstOrElse(list, next) == IF Len(list) > 0 THEN list[1] ELSE next

substituteFocusForSpace(c) ==
    LET allowed == IF Len(c.element.motor) > 0 THEN c.element.motor ELSE <<FM, SR, EF>>
        prefers == SelectSeq(allowed, LAMBDA f : ~InSeq(f, NEEDS_SPACE))
    IN FirstOrElse(prefers, FirstOrElse(allowed, c.therapeuticFocus))

\* A substitution that leaves the focus as it is
substituteFocusForAgeKeepingFocus(c) == c.therapeuticFocus

substituteFocusForAge(c) ==
    LET allowed == IF Len(c.element.motor) > 0 THEN c.element.motor ELSE <<SR, FM, GM>>
        preferred == SelectSeq(allowed, LAMBDA f : InSeq(f, PREFERRED_FOR_UNDER_4))
    IN FirstOrElse(preferred, FirstOrElse(allowed, c.therapeuticFocus))

getHumanizeOffset(index, focus) == (index * 7 + Len(focus)) % 3

areStructurallySimilar(prev, curr) ==
    /\ CATEGORY(prev.therapeuticFocus) = CATEGORY(curr.therapeuticFocus)
    /\ DEMAND(prev.therapeuticFocus) = DEMAND(curr.therapeuticFocus)

\* The callback of activities.map in refineActivities; index is 0-based
RefineOne(c, index, a) ==
    LET afterSpace == IF ~isFeasibleInSpace(c) THEN substituteFocusForSpace(c)
                      ELSE c.therapeuticFocus
        activity == [c EXCEPT !.therapeuticFocus = afterSpace]
        focus == IF a < 4 /\ InSeq(afterSpace, LESS_SUITABLE_UNDER_4)
                 THEN substituteFocusForAge(activity)
                 ELSE afterSpace
    IN [objectLabel |-> c.objectLabel,
        therapeuticFocus |-> focus,
        element |-> c.element,
        specificSkillSeed |-> index + a + (Len(c.objectLabel) % 5),
        humanizeOffset |-> getHumanizeOffset(index, focus)]

\* remaining.splice(i, 1)
RemoveAt(s, i) == SubSeq(s, 1, i - 1) \o SubSeq(s, i + 1, Len(s))

\* The while loop of enforceDiversityOrder
RECURSIVE DiversityLoop(_, _)
DiversityLoop(out, remaining) ==
    IF Len(remaining) = 0 THEN out
    ELSE LET better == IF Len(out) > 0
                          /\ \E i \in DOMAIN remaining :
                                ~areStructurallySimilar(out[Len(out)], remaining[i])
                       THEN CHOOSE i \in DOMAIN remaining :
                               /\ ~areStructurallySimilar(out[Len(out)], remaining[i])
                               /\ \A j \in 1..(i - 1) :
                                     areStructurallySimilar(out[Len(out)], remaining[j])
                       ELSE 1
         IN DiversityLoop(Append(out, remaining[better]), RemoveAt(remaining, better))

\* A reorder that drops every activity similar to the one before it
enforceDiversityByDropping(activities) ==
    LET kept == SelectSeq(Indices(activities),
                          LAMBDA i : \/ i = 1
                                     \/ ~areStructurallySimilar(activities[i - 1],
                                                                 activities[i]))
    IN [k \in 1..Len(kept) |-> activities[kept[k]]]

enforceDiversityOrder(activities) ==
    IF Len(activities) <= 1 THEN activities
    ELSE DiversityLoop(<<>>, activities)

\* The unordered result of the map, before the diversity reorder
RefineMap(activities, a) ==
    [i \in DOMAIN activities |-> RefineOne(activities[i], i - 1, a)]

refineActivities(activities, els, a) ==
    IF Len(activities) = 0 THEN <<>>
    ELSE enforceDiversityOrder(RefineMap(activities, a))

(***************************************************************************)
(* The reasoning layer (ai-reasoning): interpretOne, reasonOverDetections. *)
(* A probability is an integer number of hundredths; a                     *)
(* confidenceAfterProcessing is an integer number of 1/10000 (the factors  *)
(* 0.85 and 0.6 are applied to a value rounded to hundredths).             *)
(***************************************************************************)
norm(label) == ReplaceSpaces(ToLowerCase(Trim(FirstSegment(label))), " ")

LOW_RELEVANCE == <<"spot", "gondola", "restaurant", "barber", "grocery", "bakery",
                   "library", "prison", "jail">>

HIGH_RELEVANCE == <<"couch", "sofa", "chair", "table", "desk", "bed", "pillow", "blanket",
                    "carpet", "rug", "ball", "stairs", "door", "window", "lamp", "book",
                    "toy", "shelf", "stool", "bench">>

\* in hundredths
relevanceWeight(normalized) ==
    IF SomeIncluded(normalized, LOW_RELEVANCE) THEN 40
    ELSE IF SomeIncluded(normalized, HIGH_RELEVANCE) THEN 100
    ELSE 75

INTERACTION_FIRST == <<
    "ball", "toy", "doll", "teddy", "block", "cube", "puzzle", "lego", "book",
    "pillow", "blanket", "quilt", "cushion", "basket", "box", "bowl", "plate", "cup",
    "towel", "carpet", "rug", "chair", "stool", "bench", "ottoman", "table", "desk",
    "couch", "sofa", "bed", "shelf", "drawer", "bookcase", "wardrobe", "cabinet",
    "bike", "bicycle", "swing", "lamp", "mirror", "plant", "vase" >>

STRUCTURAL_BACKGROUND == <<
    "wall", "floor", "door", "window", "stairs", "step" >>

interactionPriorityScore(normalized) ==
    IF SomeIncluded(normalized, INTERACTION_FIRST) THEN 2
    ELSE IF SomeIncluded(normalized, STRUCTURAL_BACKGROUND) THEN 0
    ELSE 1

GENERIC_OR_IRRELEVANT == <<"object", "entity", "thing", "item", "something">>

REASONER_EXCLUDE == <<"swastika", "confederate", "cartoon", "comic", "mask", "weapon",
                      "gun", "rifle", "grenade">>

\* The keys of the interpretations table, in its order.  The Arabic name,
\* category and context of an entry are fixed by its key.
INTERPRETATION_KEYS == <<
    "couch", "sofa", "chair", "table", "desk", "bed", "pillow", "blanket", "quilt",
    "carpet", "rug", "floor", "ball", "stairs", "step", "stool", "bench", "ottoman",
    "lamp", "door", "window", "wall", "book", "bookcase", "shelf", "wardrobe",
    "cabinet", "drawer", "box", "basket", "bike", "bicycle", "toy", "doll", "teddy",
    "block", "cube", "puzzle", "lego", "tv", "television", "monitor", "laptop",
    "computer", "phone", "remote", "keyboard", "cushion", "mattress", "plant", "vase",
    "mirror", "towel", "bowl", "plate", "cup", "diningtable", "coffeetable",
    "highchair", "bathtub", "tub", "sink", "toilet", "refrigerator", "oven",
    "microwave", "swing", "board", "card", "notebook", "backpack", "scissors" >>

ENV_LIKE == <<"furniture", "furnishing", "room", "indoor", "floor", "wall", "table",
              "chair", "seat", "cushion", "mat", "rug", "carpet", "shelf", "desk", "bed",
              "lamp", "door", "window">>

\* n.split(/\s+/)[0] of a trimmed, whitespace-collapsed n
FirstWord(n) ==
    IF \E i \in 1..Len(n) : IsSpace(CharAt(n, i))
    THEN SubSeq(n, 1, (CHOOSE i \in 1..Len(n) :
                          /\ IsSpace(CharAt(n, i))
                          /\ \A j \in 1..(i - 1) : ~IsSpace(CharAt(n, j))) - 1)
    ELSE n

\* A confidence with the two weights exchanged
BaseConfidenceWeightsExchanged(probability, rel) ==
    Min(100, (40 * probability + 60 * rel + 50) \div 100)

\* Math.min(1, Math.round((probability * 0.6 + rel * 0.4) * 100) / 100), in hundredths
BaseConfidence(probability, rel) == Min(100, (60 * probability + 40 * rel + 50) \div 100)

\* interpretOne: <<>> for null, else <<ReasonedElement>>.  `kind` and
\* `interpretation` stand for the Arabic name, category and context.
interpretOne(className, probability) ==
    LET n == norm(className)
        base == ReplaceSpaces(n, "")
        firstWord == FirstWord(n)
        rel == relevanceWeight(n)
        confidence == BaseConfidence(probability, rel)
        Matches(i) == \/ Includes(base, INTERPRETATION_KEYS[i])
                      \/ Includes(INTERPRETATION_KEYS[i], base)
    IN IF \E i \in DOMAIN GENERIC_OR_IRRELEVANT :
             \/ firstWord = GENERIC_OR_IRRELEVANT[i]
             \/ firstWord = GENERIC_OR_IRRELEVANT[i] \o "s"
       THEN <<>>
       ELSE IF SomeIncluded(n, REASONER_EXCLUDE) THEN <<>>
       ELSE IF \E i \in DOMAIN INTERPRETATION_KEYS : Matches(i)
            THEN << [rawLabel |-> className,
                     kind |-> "curated",
                     interpretation |->
                         INTERPRETATION_KEYS[CHOOSE i \in DOMAIN INTERPRETATION_KEYS :
                                                Matches(i) /\ \A j \in 1..(i - 1) : ~Matches(j)],
                     confidenceAfterProcessing |-> confidence * 100] >>
       ELSE IF SomeIncluded(n, ENV_LIKE)
            THEN << [rawLabel |-> className,
                     kind |-> "synthesized",
                     interpretation |-> FirstWord(n),
                     confidenceAfterProcessing |-> confidence * 85] >>
       ELSE IF rel >= 50
            THEN << [rawLabel |-> className,
                     kind |-> "hedged",
                     interpretation |-> FirstWord(n),
                     confidenceAfterProcessing |-> confidence * 60] >>
       ELSE <<>>

\* 0.35, in 1/10000
REASONER_MIN_CONFIDENCE == 3500

\* Array.prototype.sort (stable).  The comparator is given as the function
\* before[<<a, b>>] = "the comparator returns a negative number for (a, b)".
\* Insertion from the left.
RECURSIVE InsertSorted(_, _, _)
InsertSorted(x, sorted, before) ==
    IF sorted = <<>> THEN <<x>>
    ELSE IF before[<<x, sorted[Len(sorted)]>>]
         THEN Append(InsertSorted(x, SubSeq(sorted, 1, Len(sorted) - 1), before),
                     sorted[Len(sorted)])
         ELSE Append(sorted, x)

\* A sort that leaves the list as it is
Unsorted(s, before) == s

RECURSIVE StableSort(_, _)
StableSort(s, before) ==
    IF s = <<>> THEN <<>>
    ELSE InsertSorted(s[Len(s)], StableSort(SubSeq(s, 1, Len(s) - 1), before), before)

\* The comparator Before as a function on the entries of s
Comparator(s, Before(_, _)) == [pr \in Range(s) \X Range(s) |-> Before(pr[1], pr[2])]

\* The for loop of reasonOverDetections from index i on
RECURSIVE ReasonLoop(_, _, _, _)
ReasonLoop(preds, i, seen, out) ==
    IF i > Len(preds) THEN out
    ELSE LET n == norm(preds[i].className)
             el == interpretOne(preds[i].className, preds[i].probability)
         IN IF n \in seen THEN ReasonLoop(preds, i + 1, seen, out)
            ELSE IF el /= <<>> /\ el[1].confidenceAfterProcessing >= REASONER_MIN_CONFIDENCE
                 THEN ReasonLoop(preds, i + 1, seen \cup {n}, Append(out, el[1]))
                 ELSE ReasonLoop(preds, i + 1, seen, out)

\* A comparator that orders by confidence alone
ReasonedBeforeByConfidenceOnly(out) ==
    [pr \in Range(out) \X Range(out) |->
        pr[2].confidenceAfterProcessing - pr[1].confidenceAfterProcessing < 0]

\* The comparator of out.sort in reasonOverDetections returns a negative
\* number, as a function on the entries of out
ReasonedBefore(out) ==
    LET score == [r \in Range(out) |-> interactionPriorityScore(norm(r.rawLabel))]
    IN [pr \in Range(out) \X Range(out) |->
           IF score[pr[2]] /= score[pr[1]] THEN score[pr[2]] - score[pr[1]] < 0
           ELSE pr[2].confidenceAfterProcessing - pr[1].confidenceAfterProcessing < 0]

reasonOverDetections(preds) ==
    LET out == ReasonLoop(preds, 1, {}, <<>>)
    IN StableSort(out, ReasonedBefore(out))

(***************************************************************************)
(* element-validation.ts: validateDetectedElements.                        *)
(***************************************************************************)
ALLOWLIST_KEYWORDS == <<
    "couch", "sofa", "chair", "table", "desk", "bed", "pillow", "blanket", "quilt",
    "carpet", "rug", "floor", "ball", "stairs", "step", "stool", "bench", "ottoman",
    "lamp", "door", "window", "wall", "book", "bookcase", "shelf", "wardrobe",
    "cabinet", "drawer", "box", "basket", "bike", "bicycle", "toy", "doll", "teddy",
    "block", "cube", "puzzle", "lego", "tv", "television", "monitor", "laptop",
    "computer", "phone", "remote", "keyboard", "cushion", "mattress", "plant", "vase",
    "mirror", "towel", "bowl", "plate", "cup", "dining", "coffee", "highchair",
    "bathtub", "tub", "sink", "toilet", "refrigerator", "oven", "microwave", "swing",
    "board", "card", "notebook", "backpack", "screen", "printer", "toaster",
    "envelope", "filing", "copier", "modem", "cellular", "telephone", "furniture",
    "furnishing", "seat", "mat", "cot" >>

BLOCKLIST_KEYWORDS == <<
    "menu", "scoreboard", "website", "web site", "prom", "book jacket", "comic book",
    "comic", "cartoon", "snow", "lakeside", "landscape", "gondola", "barber",
    "grocery", "bakery", "prison", "jail", "nightclub", "confederate", "swastika",
    "weapon", "gun", "rifle", "grenade", "restaurant", "dome", "spot", "mask" >>

INTERACTION_FIRST_KEYWORDS == <<
    "ball", "toy", "doll", "teddy", "block", "cube", "puzzle", "lego", "book",
    "pillow", "blanket", "quilt", "cushion", "basket", "box", "bowl", "plate", "cup",
    "towel", "card", "notebook", "remote", "keyboard", "carpet", "rug", "chair",
    "stool", "bench", "ottoman", "table", "desk", "couch", "sofa", "bed", "mat",
    "shelf", "drawer", "bookcase", "wardrobe", "cabinet", "bike", "bicycle", "swing",
    "lamp", "mirror", "plant", "vase" >>

STRUCTURAL_OR_BACKGROUND_KEYWORDS == <<
    "wall", "floor", "door", "window", "stairs", "step" >>

TARGET_OBJECT_COUNT_MAX == 5

\* 0.4, in 1/10000
MIN_CONFIDENCE == 4000

AGE_NO_SHARP_SMALL_PARTS == 3

EXCLUDE_FOR_YOUNG == <<"scissors", "scissor">>

normalize(label) == ReplaceSpaces(ToLowerCase(Trim(FirstSegment(label))), " ")

normalizedKey(label) == ReplaceSpaces(normalize(label), "")

matchesBlocklist(normalized) == SomeIncluded(normalized, BLOCKLIST_KEYWORDS)

\* kw => key.includes(kw.replace(/\s+/g, '')) || n.includes(kw)
\* kw.replace(/\s+/g, '') of every keyword of the three lists
KeywordWithoutSpaces ==
    [kw \in Range(ALLOWLIST_KEYWORDS) \cup Range(INTERACTION_FIRST_KEYWORDS)
             \cup Range(STRUCTURAL_OR_BACKGROUND_KEYWORDS) |-> ReplaceSpaces(kw, "")]

KeywordHit(label, keywords) ==
    LET n == normalize(label)
        key == normalizedKey(label)
    IN \E i \in DOMAIN keywords :
           \/ Includes(key, KeywordWithoutSpaces[keywords[i]])
           \/ Includes(n, keywords[i])

matchesAllowlist(label) ==
    LET key == normalizedKey(label)
    IN \/ KeywordHit(label, ALLOWLIST_KEYWORDS)
       \/ \E i \in DOMAIN ALLOWLIST_KEYWORDS :
             /\ Len(ALLOWLIST_KEYWORDS[i]) >= 3
             /\ Includes(key, ALLOWLIST_KEYWORDS[i])

excludedForAge(label, a) ==
    IF a >= AGE_NO_SHARP_SMALL_PARTS THEN FALSE
    ELSE SomeIncluded(normalize(label), EXCLUDE_FOR_YOUNG)

interactionPriority(label) ==
    IF KeywordHit(label, INTERACTION_FIRST_KEYWORDS) THEN 2
    ELSE IF KeywordHit(label, STRUCTURAL_OR_BACKGROUND_KEYWORDS) THEN 0
    ELSE 1

\* reasonByRaw.get(label): <<>> when absent; the Map keeps the last entry of a key
ReasonByRaw(reasoned, label) ==
    IF \E i \in DOMAIN reasoned : reasoned[i].rawLabel = label
    THEN << reasoned[CHOOSE i \in DOMAIN reasoned :
                        /\ reasoned[i].rawLabel = label
                        /\ \A j \in (i + 1)..Len(reasoned) : reasoned[j].rawLabel /= label] >>
    ELSE <<>>

\* The labels the first loop adds to allowedRaw
AllowedRaw(labels, reasoned, a) ==
    {labels[i] : i \in {j \in DOMAIN labels :
        /\ ~matchesBlocklist(normalize(labels[j]))
        /\ matchesAllowlist(labels[j])
        /\ ~excludedForAge(labels[j], a)
        /\ LET re == ReasonByRaw(reasoned, labels[j])
           IN ~(re /= <<>> /\ re[1].confidenceAfterProcessing < MIN_CONFIDENCE)}}

\* The comparator (a, b) => interactionPriority(b) - interactionPriority(a)
\* returns a negative number, as a function on the entries of s
PriorityBefore(s) ==
    LET priority == [l \in Range(s) |-> interactionPriority(l)]
    IN [pr \in Range(s) \X Range(s) |-> priority[pr[2]] - priority[pr[1]] < 0]

\* Array.prototype.indexOf, 0-based, -1 when absent
IndexOf(s, x) ==
    IF \E i \in DOMAIN s : s[i] = x
    THEN (CHOOSE i \in DOMAIN s : s[i] = x /\ \A j \in 1..(i - 1) : s[j] /= x) - 1
    ELSE -1

\* labels.filter(allowedRaw.has) before the sort and the slice
PassedLabels(labels, reasoned, a) ==
    LET allowedRaw == AllowedRaw(labels, reasoned, a)
    IN SelectSeq(labels, LAMBDA l : l \in allowedRaw)

validateDetectedElements(labels, reasoned, a) ==
    LET allowedRaw == AllowedRaw(labels, reasoned, a)
        filteredReasoned == SelectSeq(reasoned, LAMBDA r : r.rawLabel \in allowedRaw)
        passed == SelectSeq(labels, LAMBDA l : l \in allowedRaw)
        sorted == StableSort(passed, PriorityBefore(passed))
        filteredLabels == SubSeq(sorted, 1, Min(Len(sorted), TARGET_OBJECT_COUNT_MAX))
        allowedSet == Range(filteredLabels)
        kept == SelectSeq(filteredReasoned, LAMBDA r : r.rawLabel \in allowedSet)
    IN [labels |-> filteredLabels,
        reasonedElements |->
            StableSort(kept,
                       Comparator(kept, LAMBDA x, y : IndexOf(filteredLabels, x.rawLabel)
                                                      - IndexOf(filteredLabels, y.rawLabel) < 0))]

(***************************************************************************)
(* The route handler POST: the person filter.                              *)
(***************************************************************************)
forbiddenKeywords == <<"face", "person", "people", "man", "woman", "boy", "girl", "human">>

\* A filter that compares the label as it is spelled
FilterPredictionsCaseSensitive(preds) ==
    SelectSeq(preds, LAMBDA p : ~SomeIncluded(p.className, forbiddenKeywords))

FilterPredictions(preds) ==
    SelectSeq(preds, LAMBDA p : ~SomeIncluded(ToLowerCase(p.className), forbiddenKeywords))

(***************************************************************************)
(* The request as a state machine: one action per stage of POST.           *)
(***************************************************************************)
\* Ages on both sides of every age threshold the code tests (3, 4, 5, 8)
Ages == {2, 3, 4, 8}

Detection(className, probability) == [className |-> className, probability |-> probability]

\* POST line 16 and the requests in flight.  modelPromise is 0 for null,
\* else the index in loads of the promise it holds; loads lists the promises
\* mobilenet.load has returned, each by its state; a request is at the await
\* it is suspended on and holds the promise getModel returned to it (0
\* before the call).
MaxRequests == 3

RequestIds == 1..MaxRequests

\* The process as it starts: the model not loaded, no request in flight.
\* The specifications that follow one request from the detector's output
\* on leave these three variables at this value.
ServerIdle ==
    /\ modelPromise = 0
    /\ loads = <<>>
    /\ requests = [r \in RequestIds |-> [at |-> "idle", awaited |-> 0]]

\* No function is being called on its own
NoCall ==
    /\ args = <<>>
    /\ returned = <<>>

Fresh ==
    /\ NoCall
    /\ ServerIdle
    /\ filteredPredictions = <<>>
    /\ reasonedElements = <<>>
    /\ validatedLabels = <<>>
    /\ validatedReasonedElements = <<>>
    /\ elements = <<>>
    /\ envActivities = <<>>
    /\ validatedActivities = <<>>
    /\ refined = <<>>

\* POST lines 70-76: the person filter
Filter ==
    /\ pc = "received"
    /\ filteredPredictions' = FilterPredictions(predictions)
    /\ pc' = "filtered"
    /\ UNCHANGED <<modelPromise, loads, requests, args, returned, predictions, age, requestedCount, reasonedElements, validatedLabels,
                   validatedReasonedElements, elements, envActivities,
                   validatedActivities, refined>>

\* POST lines 78-80
Reason ==
    /\ pc = "filtered"
    /\ reasonedElements' = reasonOverDetections(filteredPredictions)
    /\ pc' = "reasoned"
    /\ UNCHANGED <<modelPromise, loads, requests, args, returned, predictions, age, requestedCount, filteredPredictions, validatedLabels,
                   validatedReasonedElements, elements, envActivities,
                   validatedActivities, refined>>

\* POST lines 76 and 81-85: labels = filteredPredictions.map(p => p.className)
ValidateElements ==
    /\ pc = "reasoned"
    /\ LET labels == [i \in DOMAIN filteredPredictions |-> filteredPredictions[i].className]
           v == validateDetectedElements(labels, reasonedElements, age)
       IN /\ validatedLabels' = v.labels
          /\ validatedReasonedElements' = v.reasonedElements
    /\ pc' = "labels_validated"
    /\ UNCHANGED <<modelPromise, loads, requests, args, returned, predictions, age, requestedCount, filteredPredictions, reasonedElements, elements,
                   envActivities, validatedActivities, refined>>

\* POST line 88
Analyze ==
    /\ pc = "labels_validated"
    /\ elements' = analyzeEnvironment(validatedLabels)
    /\ pc' = "analyzed"
    /\ UNCHANGED <<modelPromise, loads, requests, args, returned, predictions, age, requestedCount, filteredPredictions, reasonedElements,
                   validatedLabels, validatedReasonedElements, envActivities,
                   validatedActivities, refined>>

\* POST line 89
Enrich ==
    /\ pc = "analyzed"
    /\ elements' = enrichElementsWithSafety(elements)
    /\ pc' = "enriched"
    /\ UNCHANGED <<modelPromise, loads, requests, args, returned, predictions, age, requestedCount, filteredPredictions, reasonedElements,
                   validatedLabels, validatedReasonedElements, envActivities,
                   validatedActivities, refined>>

\* POST line 90; the two random sorts of the builder may come out in any order
Build ==
    /\ pc = "enriched"
    /\ \E preferredOrder \in Shuffles(DIVERSITY_BUCKETS) :
       \E shuffledElements \in Shuffles(elements) :
           envActivities' = buildActivitiesFromEnvironment(elements, age, requestedCount,
                                                           preferredOrder, shuffledElements)
    /\ pc' = "built"
    /\ UNCHANGED <<modelPromise, loads, requests, args, returned, predictions, age, requestedCount, filteredPredictions, reasonedElements,
                   validatedLabels, validatedReasonedElements, elements,
                   validatedActivities, refined>>

\* POST line 91.  The code assigns the result back to envActivities; the
\* builder's list is kept here in envActivities and the validator's in
\* validatedActivities.
ValidateActivities ==
    /\ pc = "built"
    /\ validatedActivities' = validateAndReplaceActivities(envActivities, elements, age)
    /\ pc' = "activities_validated"
    /\ UNCHANGED <<modelPromise, loads, requests, args, returned, predictions, age, requestedCount, filteredPredictions, reasonedElements,
                   validatedLabels, validatedReasonedElements, elements,
                   envActivities, refined>>

\* POST line 92
Refine ==
    /\ pc = "activities_validated"
    /\ refined' = refineActivities(validatedActivities, elements, age)
    /\ pc' = "refined"
    /\ UNCHANGED <<modelPromise, loads, requests, args, returned, predictions, age, requestedCount, filteredPredictions, reasonedElements,
                   validatedLabels, validatedReasonedElements, elements,
                   envActivities, validatedActivities>>

\* All sequences over S of length at most n
SeqsUpTo(S, n) == UNION {[1..k -> S] : k \in 0..n}

(***************************************************************************)
(* Specification Spec: whole requests on short detection lists.            *)
(***************************************************************************)
MaxDetections == 2

\* A person, a person label in capitals with a second segment, heavy
\* furniture (sofa, table), an elevated fixed structure (stairs), a small
\* floor object (ball), and a screen the reasoner drops for low confidence
\* but the element validator lets through (tv).
Detections == {Detection("sofa", 90), Detection("sofa", 0), Detection("stairs", 70),
               Detection("ball", 80), Detection("person", 95), Detection("table", 60),
               Detection("tv", 0), Detection("Girl, doll", 85)}

\* POST line 90 passes the literal 5 as the builder's count
ROUTE_ACTIVITY_COUNT == 5

Init ==
    /\ pc = "received"
    /\ predictions \in SeqsUpTo(Detections, MaxDetections)
    /\ age \in Ages
    /\ requestedCount = ROUTE_ACTIVITY_COUNT
    /\ Fresh

Next ==
    \/ Filter
    \/ Reason
    \/ ValidateElements
    \/ Analyze
    \/ Enrich
    \/ Build
    \/ ValidateActivities
    \/ Refine

Spec == Init /\ [][Next]_vars

(***************************************************************************)
(* Specification SpecBuild: buildActivitiesFromEnvironment called directly *)
(* on analysed and safety-enriched scenes, for every count.                *)
(***************************************************************************)
MaxBuildLabels == 2

MaxRequestedCount == 5

BuildLabels == {"sofa", "stairs", "ball"}

\* The element lists analyzeEnvironment and enrichElementsWithSafety make of
\* label lists
Scenes(labelSet, n) ==
    {enrichElementsWithSafety(analyzeEnvironment(l)) : l \in SeqsUpTo(labelSet, n)}

\* A function of the pipeline called on its own: no request is in progress
NoRequest ==
    /\ NoCall
    /\ ServerIdle
    /\ predictions = <<>>
    /\ filteredPredictions = <<>>
    /\ reasonedElements = <<>>
    /\ validatedReasonedElements = <<>>

InitBuild ==
    /\ pc = "enriched"
    /\ NoRequest
    /\ validatedLabels = <<>>
    /\ elements \in Scenes(BuildLabels, MaxBuildLabels)
    /\ age \in Ages
    /\ requestedCount \in 0..MaxRequestedCount
    /\ envActivities = <<>>
    /\ validatedActivities = <<>>
    /\ refined = <<>>

SpecBuild == InitBuild /\ [][Build]_vars

(***************************************************************************)
(* Specification SpecAnalyze: analyzeEnvironment called directly on label  *)
(* lists: every list of up to MaxRepeatedLabels labels, and every list     *)
(* without a verbatim repeat of up to MaxLabels labels.                    *)
(***************************************************************************)
MaxLabels == 7

MaxRepeatedLabels == 4

\* Six distinct normalized labels, and a second spelling of one of them
AnalyzeLabels == {"ball", "Ball, toy", "sofa", "rug", "cup", "bed", "toy box"}

\* The lists over S of length k in which no entry repeats
RECURSIVE InjectiveOfLen(_, _)
InjectiveOfLen(S, k) ==
    IF k = 0 THEN {<<>>}
    ELSE UNION {{Append(s, x) : x \in S \ Range(s)} : s \in InjectiveOfLen(S, k - 1)}

Injective(S, n) == UNION {InjectiveOfLen(S, k) : k \in 0..n}

InitAnalyze ==
    /\ pc = "labels_validated"
    /\ NoRequest
    /\ validatedLabels \in SeqsUpTo(AnalyzeLabels, MaxRepeatedLabels)
                           \cup Injective(AnalyzeLabels, MaxLabels)
    /\ age = 2    \* analyzeEnvironment takes no age
    /\ requestedCount = ROUTE_ACTIVITY_COUNT
    /\ elements = <<>>
    /\ envActivities = <<>>
    /\ validatedActivities = <<>>
    /\ refined = <<>>

SpecAnalyze == InitAnalyze /\ [][Analyze]_vars

(***************************************************************************)
(* Specification SpecElements: the person filter, the reasoner and          *)
(* validateDetectedElements on longer detection lists.                     *)
(***************************************************************************)
MaxPassingDetections == 6

MaxMixedDetections == 2

\* One detection of each interaction priority (2, 1, 0); all three pass
PassingDetections == {Detection("ball", 80), Detection("tv", 70), Detection("wall", 90)}

\* ... and detections that fail a check: a person, a blocklisted label, a
\* label not on the allowlist, a label excluded under age 3, a confidence
\* under 0.4
MixedDetections ==
    PassingDetections \cup {Detection("person", 95), Detection("menu", 90),
                            Detection("scissors", 80), Detection("toy scissors", 80),
                            Detection("monitor", 10)}

\* Ages on both sides of the one age validateDetectedElements tests (3)
ElementAges == {2, 3}

InitElements ==
    /\ pc = "received"
    /\ predictions \in SeqsUpTo(PassingDetections, MaxPassingDetections)
                       \cup SeqsUpTo(MixedDetections, MaxMixedDetections)
    /\ age \in ElementAges
    /\ requestedCount = ROUTE_ACTIVITY_COUNT
    /\ Fresh

NextElements ==
    \/ Filter
    \/ Reason
    \/ ValidateElements

SpecElements == InitElements /\ [][NextElements]_vars

(***************************************************************************)
(* Specification SpecValidate: validateAndReplaceActivities called         *)
(* directly on candidate lists over analysed scenes, with and without      *)
(* safety metadata.                                                        *)
(***************************************************************************)
MaxValidateLabels == 2

MaxCandidates == 2

ValidateLabels == {"sofa", "stairs", "ball", "table"}

\* Every pairing of an element of els with a focus
CandidatesOver(els) ==
    {Candidate(els[i], f) : i \in DOMAIN els, f \in Range(ALL_FOCUSES)}

InitValidate ==
    /\ pc = "built"
    /\ NoRequest
    /\ validatedLabels = <<>>
    /\ elements \in Scenes(ValidateLabels, MaxValidateLabels)
                    \cup {analyzeEnvironment(l) :
                              l \in SeqsUpTo(ValidateLabels, MaxValidateLabels)}
    /\ age \in Ages
    /\ requestedCount = ROUTE_ACTIVITY_COUNT
    /\ envActivities \in SeqsUpTo(CandidatesOver(elements), MaxCandidates)
    /\ validatedActivities = <<>>
    /\ refined = <<>>

NextValidate ==
    \/ ValidateActivities
    \/ Refine

SpecValidate == InitValidate /\ [][NextValidate]_vars

(***************************************************************************)
(* Specification SpecRefine: refineActivities called directly, on short    *)
(* lists over a five-element room (every surrounding space) and on longer  *)
(* lists over a lone element (every order of focuses).                     *)
(***************************************************************************)
MaxRoomActivities == 2

MaxLoneActivities == 4

RefineRoom == <<"ball", "pillow", "sofa", "bench", "table">>

RefineLone == <<"ball">>

InitRefine ==
    /\ pc = "activities_validated"
    /\ NoRequest
    /\ validatedLabels = <<>>
    /\ \/ /\ elements = enrichElementsWithSafety(analyzeEnvironment(RefineRoom))
          /\ validatedActivities \in SeqsUpTo(CandidatesOver(elements), MaxRoomActivities)
       \/ /\ elements = enrichElementsWithSafety(analyzeEnvironment(RefineLone))
          /\ validatedActivities \in SeqsUpTo(CandidatesOver(elements), MaxLoneActivities)
    /\ age \in Ages
    /\ requestedCount = ROUTE_ACTIVITY_COUNT
    /\ envActivities = <<>>
    /\ refined = <<>>

SpecRefine == InitRefine /\ [][Refine]_vars

(***************************************************************************)
(* Specification SpecRoom: whole requests on a room of five objects, the   *)
(* fifth of which stands in constrained space.                             *)
(***************************************************************************)
Room == <<Detection("ball", 80), Detection("pillow", 75), Detection("sofa", 90),
          Detection("chair", 70), Detection("table", 60)>>

InitRoom ==
    /\ pc = "received"
    /\ predictions = Room
    /\ age \in Ages
    /\ requestedCount = ROUTE_ACTIVITY_COUNT
    /\ Fresh

SpecRoom == InitRoom /\ [][Next]_vars

(***************************************************************************)
(* Properties of the activity builder (SpecBuild).                         *)
(***************************************************************************)
PairOf(activity) == <<activity.objectLabel, activity.therapeuticFocus>>

DistinctLabels(els) ==
    \A i, j \in DOMAIN els : i /= j => els[i].objectLabel /= els[j].objectLabel

\* C3: on elements with distinct objectLabels, whatever the age, the count
\* and the two shuffles, the list buildActivitiesFromEnvironment returns has
\* no two entries with the same (objectLabel, therapeuticFocus).
C3_NoDuplicatePairing ==
    (pc = "built" /\ DistinctLabels(elements)) =>
        \A i, j \in DOMAIN envActivities :
            i /= j => PairOf(envActivities[i]) /= PairOf(envActivities[j])

\* The focus-reuse loop has acted: one focus appears with two elements, and
\* one element with two focuses.
C3_FocusReusedOnOtherElement ==
    /\ pc = "built"
    /\ \E i, j \in DOMAIN envActivities :
          /\ envActivities[i].therapeuticFocus = envActivities[j].therapeuticFocus
          /\ envActivities[i].objectLabel /= envActivities[j].objectLabel
    /\ \E i, j \in DOMAIN envActivities :
          /\ envActivities[i].therapeuticFocus /= envActivities[j].therapeuticFocus
          /\ envActivities[i].objectLabel = envActivities[j].objectLabel

\* const allowed = element.motor.length ? element.motor : ALL_THERAPEUTIC_FOCUSES
AllowedFocuses(element) ==
    IF Len(element.motor) > 0 THEN element.motor ELSE ALL_THERAPEUTIC_FOCUSES

\* The distinct focuses the elements afford between them
AffordedFocuses(els) == UNION {Range(AllowedFocuses(els[i])) : i \in DOMAIN els}

ValidatorDone == pc \in {"activities_validated", "refined"}

\* The branch the validator takes for the k-th candidate of envActivities
BranchOf(k) ==
    ValidationBranch(envActivities[k], elements, age,
                     ValidatePrefix(envActivities, elements, age, k - 1).used)

\* C2: validateAndReplaceActivities never drops or adds an activity: the
\* returned list is exactly as long as the candidate list, whichever tier
\* each candidate takes.
C2_ValidatorKeepsLength ==
    ValidatorDone => Len(validatedActivities) = Len(envActivities)

\* Two unsafe candidates: the first replaced on its own element, the second
\* kept as the last resort.
C2_ReplacedThenKept ==
    /\ pc = "activities_validated"
    /\ Len(envActivities) = 2
    /\ BranchOf(1) = "same_element"
    /\ BranchOf(2) = "last_resort"
    /\ validatedActivities[1] /= envActivities[1]
    /\ validatedActivities[2] = envActivities[2]

(***************************************************************************)
(* Properties of refineActivities (SpecRefine).                            *)
(***************************************************************************)
\* The 1-based index in the input of refineActivities of the entry r of its
\* output, from specificSkillSeed = index + age + objectLabel.length % 5
OriginIndex(r) == r.specificSkillSeed - age - (Len(r.objectLabel) % 5) + 1

NoAdjacentSimilar(s) ==
    \A i \in 1..(Len(s) - 1) : ~areStructurallySimilar(s[i], s[i + 1])

\* C7: after enforceDiversityOrder either no two adjacent activities share
\* category and demand, or no order of the same activities has that
\* property.
C7_AlternatesWheneverPossible ==
    pc = "refined" =>
        \/ NoAdjacentSimilar(refined)
        \/ ~\E p \in Shuffles(refined) : NoAdjacentSimilar(p)

TargetOf(activity) == <<activity.objectLabel, activity.element>>

\* The multiset of (objectLabel, element) of a list
TargetBag(s) ==
    [x \in {TargetOf(s[i]) : i \in DOMAIN s} |->
        Cardinality({i \in DOMAIN s : TargetOf(s[i]) = x})]

\* C8: refineActivities returns a list of the same length as its input and
\* with the same multiset of (objectLabel, element).
C8_RefineKeepsTargets ==
    pc = "refined" =>
        /\ Len(refined) = Len(validatedActivities)
        /\ TargetBag(refined) = TargetBag(validatedActivities)

\* A refinement that both substituted a focus and changed the order.
C8_SubstitutedAndReordered ==
    /\ pc = "refined"
    /\ Len(refined) >= 2
    /\ \E i \in DOMAIN refined : OriginIndex(refined[i]) /= i
    /\ \E i \in DOMAIN refined :
          refined[i].therapeuticFocus
              /= validatedActivities[OriginIndex(refined[i])].therapeuticFocus

(***************************************************************************)
(* Properties of analyzeEnvironment (SpecAnalyze).                         *)
(***************************************************************************)
\* First comma segment, lower-cased, whitespace removed
NormalizedLabel(label) == RemoveAll(ToLowerCase(Trim(FirstSegment(label))), " ")

FirstWithNormalizedLabel(labels, key) ==
    labels[CHOOSE i \in DOMAIN labels :
              /\ NormalizedLabel(labels[i]) = key
              /\ \A j \in 1..(i - 1) : NormalizedLabel(labels[j]) /= key]

\* C9: analyzeEnvironment returns at most 5 elements, no two with the same
\* normalized label, and the element of a normalized label carries the
\* first label of the input that has it.
C9_AtMostFiveDistinctFirstKept ==
    pc = "analyzed" =>
        /\ Len(elements) <= 5
        /\ \A i, j \in DOMAIN elements :
              i /= j => NormalizedLabel(elements[i].objectLabel)
                            /= NormalizedLabel(elements[j].objectLabel)
        /\ \A i \in DOMAIN elements :
              /\ InSeq(elements[i].objectLabel, validatedLabels)
              /\ elements[i].objectLabel
                    = FirstWithNormalizedLabel(validatedLabels,
                                               NormalizedLabel(elements[i].objectLabel))

\* Seven labels, two spellings of one normalized label among the first five:
\* four elements, the first spelling kept.
C9_SecondSpellingCollapsed ==
    /\ pc = "analyzed"
    /\ Len(validatedLabels) = 7
    /\ Len(elements) = 4
    /\ \E i, j \in 1..5 :
          i < j /\ validatedLabels[i] = "Ball, toy" /\ validatedLabels[j] = "ball"
    /\ \E i \in DOMAIN elements : elements[i].objectLabel = "Ball, toy"

(***************************************************************************)
(* Properties of validateDetectedElements (SpecElements).                  *)
(***************************************************************************)
\* POST line 76
RouteLabels == [i \in DOMAIN filteredPredictions |-> filteredPredictions[i].className]

\* The labels that passed the block, allow, age and confidence checks
Passed == PassedLabels(RouteLabels, reasonedElements, age)

Occurrences(s, x) == Cardinality({i \in DOMAIN s : s[i] = x})

\* The labels that passed the checks and were cut by the truncation
CutLabels ==
    {l \in Range(Passed) : Occurrences(Passed, l) > Occurrences(validatedLabels, l)}

\* C10: validateDetectedElements returns at most 5 labels, in non-increasing
\* interaction priority; no label that passed the checks and was cut has a
\* higher priority than a returned one; a structural label is returned only
\* when fewer than 5 labels of higher priority passed.
C10_AtMostFiveByPriority ==
    pc = "labels_validated" =>
        /\ Len(validatedLabels) <= 5
        /\ \A i, j \in DOMAIN validatedLabels :
              i < j => interactionPriority(validatedLabels[i])
                           >= interactionPriority(validatedLabels[j])
        /\ \A l \in CutLabels : \A i \in DOMAIN validatedLabels :
              interactionPriority(l) <= interactionPriority(validatedLabels[i])
        /\ (\E i \in DOMAIN validatedLabels : interactionPriority(validatedLabels[i]) = 0)
              => Cardinality({i \in DOMAIN Passed : interactionPriority(Passed[i]) > 0}) < 5

\* Six labels passed, two structural ones first: one of them is cut, and
\* labels of all three priorities are returned.
C10_StructuralLabelCut ==
    /\ pc = "labels_validated"
    /\ Len(Passed) = 6
    /\ interactionPriority(Passed[1]) = 0
    /\ interactionPriority(Passed[2]) = 0
    /\ "wall" \in CutLabels
    /\ {interactionPriority(validatedLabels[i]) : i \in DOMAIN validatedLabels} = {0, 1, 2}

(***************************************************************************)
(* Properties of whole requests (Spec).                                    *)
(***************************************************************************)
ElevatedUnstable(element) ==
    /\ element.safety /= <<>>
    /\ InSeq("elevated_unstable", element.safety[1].classes)

\* C5: for age < 3, no entry of the list validateAndReplaceActivities returns
\* pairs an elevated_unstable element with gross_motor or motor_planning.
C5_NoGrossMotorOnElevatedUnderThree ==
    (ValidatorDone /\ age < 3) =>
        \A i \in DOMAIN validatedActivities :
            ElevatedUnstable(validatedActivities[i].element)
                => validatedActivities[i].therapeuticFocus \notin {GM, MP}

OnlySofa == Len(predictions) = 1 /\ predictions[1].className = "sofa"

\* C6: for the single detection 'sofa', at every age and shuffle, the request
\* yields exactly one element (height low, stability stable, class
\* fixed_heavy_furniture, useSafeAlternativesOnly) and every refined activity
\* has focus gross_motor or sensory_regulation.
C6_SofaScenario ==
    OnlySofa =>
        /\ pc \in {"analyzed", "enriched", "built", "activities_validated", "refined"}
              => /\ Len(elements) = 1
                 /\ elements[1].height = "low"
                 /\ elements[1].stability = "stable"
        /\ pc \in {"enriched", "built", "activities_validated", "refined"}
              => /\ elements[1].safety[1].classes = <<"fixed_heavy_furniture">>
                 /\ elements[1].safety[1].useSafeAlternativesOnly
        /\ pc = "refined"
              => \A i \in DOMAIN refined : refined[i].therapeuticFocus \in {GM, SR}

\* The sofa request has run to its end and produced both of its activities.
C6_SofaRefined ==
    /\ OnlySofa
    /\ pc = "refined"
    /\ Len(elements) = 1
    /\ {refined[i].therapeuticFocus : i \in DOMAIN refined} = {GM, SR}

(***************************************************************************)
(* Properties of whole requests on the five-object room (SpecRoom).        *)
(***************************************************************************)
\* C1: in the refined list of a request every activity on an element with
\* useSafeAlternativesOnly has focus sensory_regulation or gross_motor,
\* unless the validator found no replacement for its candidate, neither on
\* the same element nor on another one.
C1_SafeAlternativesOnlyEndToEnd ==
    pc = "refined" =>
        \A i \in DOMAIN refined :
            MetaUseSafe(getSafetyMetadata(refined[i].element))
                => \/ refined[i].therapeuticFocus \in {SR, GM}
                   \/ BranchOf(OriginIndex(refined[i])) = "last_resort"

(***************************************************************************)
(* Specification SpecFeasibility: getAgeFeasibility called on its own for  *)
(* two ages a <= b.                                                        *)
(***************************************************************************)
MaxAge == 18

\* A function called on its own, outside a request: the request's variables
\* hold nothing
PipelineIdle ==
    /\ ServerIdle
    /\ predictions = <<>>
    /\ filteredPredictions = <<>>
    /\ reasonedElements = <<>>
    /\ validatedReasonedElements = <<>>
    /\ validatedLabels = <<>>
    /\ elements = <<>>
    /\ envActivities = <<>>
    /\ validatedActivities = <<>>
    /\ refined = <<>>
    /\ requestedCount = ROUTE_ACTIVITY_COUNT
    /\ age = 1

InitFeasibility ==
    /\ pc = "call_getAgeFeasibility"
    /\ PipelineIdle
    /\ args \in {<<a, b>> : a \in 1..MaxAge, b \in 1..MaxAge}
    /\ returned = <<>>

\* getAgeFeasibility(a) and getAgeFeasibility(b)
CallGetAgeFeasibility ==
    /\ pc = "call_getAgeFeasibility"
    /\ returned' = [i \in DOMAIN args |-> getAgeFeasibility(args[i])]
    /\ pc' = "returned_getAgeFeasibility"
    /\ UNCHANGED <<modelPromise, loads, requests, args, predictions, age, requestedCount, filteredPredictions,
                   reasonedElements, validatedLabels, validatedReasonedElements, elements,
                   envActivities, validatedActivities, refined>>

SpecFeasibility == InitFeasibility /\ [][CallGetAgeFeasibility]_vars

\* The position of a tier in its order
StrengthRank(t) ==
    CASE t = "minimal" -> 0 [] t = "light" -> 1 [] t = "moderate" -> 2 [] t = "full" -> 3

BalanceRank(t) ==
    CASE t = "static_only" -> 0 [] t = "simple_dynamic" -> 1
      [] t = "moderate_dynamic" -> 2 [] t = "complex" -> 3

PlanningRank(t) ==
    CASE t = "single_step" -> 0 [] t = "two_steps" -> 1
      [] t = "three_steps" -> 2 [] t = "multi_step" -> 3

\* C11: getAgeFeasibility is monotone in age: for ages a <= b the strength,
\* balance and motor planning tiers at b are at least the tiers at a,
\* allowElevatedSurfaces does not go from true to false, and
\* allowUnstableSurfaces is false at every age.
C11_FeasibilityMonotone ==
    (pc = "returned_getAgeFeasibility" /\ args[1] <= args[2]) =>
        /\ StrengthRank(returned[1].maxStrengthDemand)
               <= StrengthRank(returned[2].maxStrengthDemand)
        /\ BalanceRank(returned[1].maxBalanceComplexity)
               <= BalanceRank(returned[2].maxBalanceComplexity)
        /\ PlanningRank(returned[1].maxMotorPlanningLoad)
               <= PlanningRank(returned[2].maxMotorPlanningLoad)
        /\ returned[1].allowElevatedSurfaces => returned[2].allowElevatedSurfaces
        /\ ~returned[1].allowUnstableSurfaces
        /\ ~returned[2].allowUnstableSurfaces

\* A toddler and an eight-year-old: the tiers rise from the lowest to the highest
C11_ToddlerAndEightYearOld ==
    /\ pc = "returned_getAgeFeasibility"
    /\ args = <<2, 8>>
    /\ returned[1].maxStrengthDemand = "minimal"
    /\ returned[2].maxStrengthDemand = "full"
    /\ ~returned[1].allowElevatedSurfaces
    /\ returned[2].allowElevatedSurfaces

\* C12: empty input is propagated by every stage: when no detection
\* survives the filter, reasonOverDetections, validateDetectedElements,
\* analyzeEnvironment, buildActivitiesFromEnvironment,
\* validateAndReplaceActivities and refineActivities each return an empty
\* collection, so the request ends with no element and no activity.
C12_EmptyPropagates ==
    (pc /= "received" /\ filteredPredictions = <<>>) =>
        /\ reasonedElements = <<>>
        /\ validatedLabels = <<>>
        /\ validatedReasonedElements = <<>>
        /\ elements = <<>>
        /\ envActivities = <<>>
        /\ validatedActivities = <<>>
        /\ refined = <<>>

\* A request whose only detection is a person ran through every stage
C12_NothingSurvivedAndDone ==
    /\ pc = "refined"
    /\ predictions = <<Detection("person", 95)>>
    /\ filteredPredictions = <<>>
    /\ elements = <<>>
    /\ refined = <<>>

\* The label contains one of the person keywords, whatever its case
PersonKeywords == {"face", "person", "people", "man", "woman", "boy", "girl", "human"}

PersonLabel(label) == \E kw \in PersonKeywords : Includes(ToLowerCase(label), kw)

\* The positions of the detections that carry no person label
NonPersonPositions == SelectSeq(Indices(predictions),
                                LAMBDA i : ~PersonLabel(predictions[i].className))

\* C13: the detection filter drops every detection whose label contains a
\* person keyword (case-insensitive substring) and passes every other
\* detection on unchanged and in the same order, so no person label reaches
\* the reasoner, the element validator, the elements or any activity.
C13_NoPersonPastFilter ==
    pc /= "received" =>
        /\ filteredPredictions =
               [k \in 1..Len(NonPersonPositions) |-> predictions[NonPersonPositions[k]]]
        /\ \A i \in DOMAIN reasonedElements : ~PersonLabel(reasonedElements[i].rawLabel)
        /\ \A i \in DOMAIN validatedLabels : ~PersonLabel(validatedLabels[i])
        /\ \A i \in DOMAIN validatedReasonedElements :
               ~PersonLabel(validatedReasonedElements[i].rawLabel)
        /\ \A i \in DOMAIN elements : ~PersonLabel(elements[i].objectLabel)
        /\ \A i \in DOMAIN envActivities : ~PersonLabel(envActivities[i].objectLabel)
        /\ \A i \in DOMAIN validatedActivities :
               ~PersonLabel(validatedActivities[i].objectLabel)
        /\ \A i \in DOMAIN refined : ~PersonLabel(refined[i].objectLabel)

\* A person and a ball were detected; only the ball went through the request
C13_PersonDroppedBallKept ==
    /\ pc = "refined"
    /\ predictions = <<Detection("person", 95), Detection("ball", 80)>>
    /\ filteredPredictions = <<Detection("ball", 80)>>
    /\ validatedLabels = <<"ball">>
    /\ Len(refined) > 0
    /\ \A i \in DOMAIN refined : refined[i].objectLabel = "ball"

\* The detections that carry no person label, in the detector's order
NonPersonPool == [k \in 1..Len(NonPersonPositions) |-> predictions[NonPersonPositions[k]]]

SortedByConfidence(s) ==
    \A i, j \in DOMAIN s : i < j => s[i].probability >= s[j].probability

\* What a filter with confidence threshold t and a minimum of three may
\* return for the pool: the detections at positions K of the pool, where K
\* holds every detection at or above t and, when these are fewer than
\* three, the best of the others until three are kept or the pool is
\* exhausted; arranged by confidence, highest first.
ThresholdFilterAllows(pool, t, out) ==
    LET above == {i \in DOMAIN pool : pool[i].probability >= t}
    IN \E K \in SUBSET DOMAIN pool :
           /\ above \subseteq K
           /\ Cardinality(K) = Max(Cardinality(above), Min(3, Len(pool)))
           /\ \A i \in K \ above : \A j \in DOMAIN pool \ K :
                  pool[i].probability >= pool[j].probability
           /\ out \in Shuffles(SelectSeq(pool, LAMBDA d : \E i \in K : pool[i] = d))
           /\ Len(out) = Cardinality(K)
           /\ SortedByConfidence(out)

\* C14: the detection filter keeps only the detections at or above the
\* confidence threshold, backfilled with the best detections below it when
\* fewer than three pass, and its output is sorted by confidence,
\* highest first -- for some threshold between 0 and 1.
C14_ThresholdBackfillSorted ==
    pc /= "received" =>
        \E t \in 0..100 : ThresholdFilterAllows(NonPersonPool, t, filteredPredictions)

\* The interaction priority of a reasoned element: 2 tangible, 1 neutral,
\* 0 structural or background
PriorityOf(r) == interactionPriorityScore(norm(r.rawLabel))

\* C15: the list reasonOverDetections returns is sorted by interaction
\* priority descending and, within equal priority, by
\* confidenceAfterProcessing descending; so no structural or background
\* element precedes a tangible one.
C15_ReasonedSortedByPriorityThenConfidence ==
    pc \in {"reasoned", "labels_validated"} =>
        /\ \A i \in 1..(Len(reasonedElements) - 1) :
               LET a == reasonedElements[i]
                   b == reasonedElements[i + 1]
               IN \/ PriorityOf(a) > PriorityOf(b)
                  \/ /\ PriorityOf(a) = PriorityOf(b)
                     /\ a.confidenceAfterProcessing >= b.confidenceAfterProcessing
        /\ \A i, j \in DOMAIN reasonedElements :
               (PriorityOf(reasonedElements[i]) = 0 /\ PriorityOf(reasonedElements[j]) = 2)
                   => j < i

\* Two screens of equal priority came in with the weaker first and left in
\* the order of their confidence
C15_EqualPriorityReordered ==
    /\ pc = "reasoned"
    /\ predictions = <<Detection("monitor", 10), Detection("tv", 70)>>
    /\ Len(reasonedElements) = 2
    /\ reasonedElements[1].rawLabel = "tv"
    /\ reasonedElements[2].rawLabel = "monitor"
    /\ PriorityOf(reasonedElements[1]) = PriorityOf(reasonedElements[2])

\* The (label, focus) keys of the entries returned before position k
UsedBefore(k) ==
    {PairKey(validatedActivities[j].objectLabel, validatedActivities[j].therapeuticFocus) :
        j \in 1..(k - 1)}

\* The pairing of element el with focus passes isActivitySafe at the request's age
Passes(el, focus) == CandidateIsSafe(Candidate(el, focus), age)

\* The focuses that may replace the focus of candidate c on its own element
SameElementChoices(c, used) ==
    {f \in Range(ALL_FOCUSES) :
        /\ f /= c.therapeuticFocus
        /\ MetaUseSafe(getSafetyMetadata(c.element)) => f \in {SR, GM}
        /\ PairKey(c.objectLabel, f) \notin used
        /\ Passes(c.element, f)}

\* The elements that may take over the focus of candidate c
OtherElementChoices(c, used) ==
    {el \in Range(elements) :
        /\ el /= c.element
        /\ ~MetaUseSafe(getSafetyMetadata(el))
        /\ PairKey(el.objectLabel, c.therapeuticFocus) \notin used
        /\ Passes(el, c.therapeuticFocus)}

SafeAges == {2, 4, 7, 8, 12}

SafeClasses == {<<>>, <<"elevated_unstable">>, <<"fixed_heavy_furniture">>,
                <<"fixed_heavy_furniture", "elevated_unstable">>,
                <<"small_manipulable", "floor_safe">>}

SafeForbiddenActions == {<<>>, <<"climb_unstable", "jump_from_height">>,
                         <<"lift", "drag", "push", "high_force">>,
                         <<"lift", "drag", "push", "high_force",
                           "climb_unstable", "jump_from_height">>}

SafeMetadata ==
    [classes : SafeClasses, forbiddenActions : SafeForbiddenActions,
     safeActionHints : {<<>>}, useSafeAlternativesOnly : BOOLEAN]

InitSafe ==
    /\ pc = "call_isActivitySafe"
    /\ PipelineIdle
    /\ args \in [objectLabel : {"stairs"},
                  therapeuticFocus : Range(ALL_FOCUSES),
                  element : {analyzeEnvironment(<<"stairs">>)[1]},
                  age : SafeAges,
                  safetyMeta : SafeMetadata]
    /\ returned = <<>>

\* isActivitySafe(objectLabel, therapeuticFocus, element, age, safetyMeta)
CallIsActivitySafe ==
    /\ pc = "call_isActivitySafe"
    /\ returned' = <<isActivitySafe(args.objectLabel, args.therapeuticFocus, args.element,
                                    args.age, args.safetyMeta)>>
    /\ pc' = "returned_isActivitySafe"
    /\ UNCHANGED <<modelPromise, loads, requests, args, predictions, age, requestedCount, filteredPredictions,
                   reasonedElements, validatedLabels, validatedReasonedElements, elements,
                   envActivities, validatedActivities, refined>>

SpecSafe == InitSafe /\ [][CallIsActivitySafe]_vars

\* C17: isActivitySafe returns false exactly when useSafeAlternativesOnly
\* is true and the focus is motor_planning, fine_motor,
\* bilateral_coordination or executive_function, or when the classes
\* include elevated_unstable and either the age band disallows elevated
\* surfaces while the focus is gross_motor or motor_planning, or
\* forbiddenActions contains climb_unstable while the focus is gross_motor;
\* in every other case it returns true.
C17_UnsafeExactlyWhen ==
    pc = "returned_isActivitySafe" =>
        LET focus == args.therapeuticFocus
            meta == args.safetyMeta
            forced == /\ meta.useSafeAlternativesOnly
                      /\ focus \in {"motor_planning", "fine_motor",
                                    "bilateral_coordination", "executive_function"}
            elevated ==
                /\ \E i \in DOMAIN meta.classes : meta.classes[i] = "elevated_unstable"
                /\ \/ /\ ~getAgeFeasibility(args.age).allowElevatedSurfaces
                      /\ focus \in {"gross_motor", "motor_planning"}
                   \/ /\ \E i \in DOMAIN meta.forbiddenActions :
                             meta.forbiddenActions[i] = "climb_unstable"
                      /\ focus = "gross_motor"
        IN returned = <<~(forced \/ elevated)>>

\* An eight-year-old, gross motor on an elevated element that forbids
\* climbing and is not heavy: unsafe by the climbing rule alone
C17_ClimbingRuleAlone ==
    /\ pc = "returned_isActivitySafe"
    /\ args.age = 8
    /\ args.therapeuticFocus = GM
    /\ args.safetyMeta.classes = <<"elevated_unstable">>
    /\ args.safetyMeta.forbiddenActions = <<"climb_unstable", "jump_from_height">>
    /\ ~args.safetyMeta.useSafeAlternativesOnly
    /\ returned = <<FALSE>>

(***************************************************************************)
(* Specification SpecClassify: enrichElementsWithSafety (and so            *)
(* classifyElementForSafety on every element) called on the scenes         *)
(* analyzeEnvironment makes of short label lists.                          *)
(***************************************************************************)
MaxClassifyLabels == 2

\* Every label of FIXED_HEAVY_LABELS, large movable furniture, small
\* objects and an elevated one
ClassifyLabels == Range(FIXED_HEAVY_LABELS)
                      \cup {"bench", "ottoman", "ball", "pillow", "stool"}

InitClassify ==
    /\ pc = "analyzed"
    /\ NoRequest
    /\ validatedLabels = <<>>
    /\ elements \in {analyzeEnvironment(l) : l \in SeqsUpTo(ClassifyLabels, MaxClassifyLabels)}
    /\ age = 2    \* the classification takes no age
    /\ requestedCount = ROUTE_ACTIVITY_COUNT
    /\ envActivities = <<>>
    /\ validatedActivities = <<>>
    /\ refined = <<>>

SpecClassify == InitClassify /\ [][Enrich]_vars

\* The fixed/heavy-furniture keyword set
FixedHeavyKeywords ==
    {"sofa", "couch", "bed", "wardrobe", "bookcase", "cabinet", "dining table", "table",
     "desk", "stairs", "door", "wall", "refrigerator", "bathtub", "tub"}

\* C18: every element whose label is in the fixed/heavy-furniture keyword
\* set is classified fixed_heavy_furniture, with forbiddenActions
\* containing lift, drag, push and high_force and useSafeAlternativesOnly
\* true; and in any returned metadata useSafeAlternativesOnly is true
\* exactly when classes contains fixed_heavy_furniture or large_movable.
C18_FixedHeavyClassified ==
    pc = "enriched" =>
        \A i \in DOMAIN elements :
            LET meta == elements[i].safety[1]
            IN /\ elements[i].objectLabel \in FixedHeavyKeywords =>
                      /\ InSeq("fixed_heavy_furniture", meta.classes)
                      /\ {"lift", "drag", "push", "high_force"}
                             \subseteq Range(meta.forbiddenActions)
                      /\ meta.useSafeAlternativesOnly
               /\ meta.useSafeAlternativesOnly <=>
                      \/ InSeq("fixed_heavy_furniture", meta.classes)
                      \/ InSeq("large_movable", meta.classes)

\* target = max(3, min(count, 5, 2 * elements, 6))
StatedTarget ==
    LET n == Len(elements)
        least == CHOOSE m \in {requestedCount, 5, 2 * n, 6} :
                     \A x \in {requestedCount, 5, 2 * n, 6} : m <= x
    IN IF least < 3 THEN 3 ELSE least

\* The (label, focus) pairings the elements afford
AffordedPairings ==
    UNION {{<<elements[i].objectLabel, f>> : f \in Range(elements[i].motor)} :
              i \in DOMAIN elements}

\* C19: for a non-empty element list with distinct labels and non-empty
\* motor lists, buildActivitiesFromEnvironment returns at least
\* min(target, number of elements) and at most target candidates, where
\* target = max(3, min(count, 5, 2 * elements, 6)), for every shuffle.
C19_BetweenElementsAndTarget ==
    (/\ pc = "built"
     /\ Len(elements) > 0
     /\ DistinctLabels(elements)
     /\ \A i \in DOMAIN elements : Len(elements[i].motor) > 0) =>
        /\ Len(envActivities) >= Min(StatedTarget, Len(elements))
        /\ Len(envActivities) <= StatedTarget

\* Two elements afford more pairings than the target of four, and the
\* builder returned exactly four
C19_CutAtTarget ==
    /\ pc = "built"
    /\ Len(elements) = 2
    /\ StatedTarget = 4
    /\ Cardinality(AffordedPairings) > 4
    /\ Len(envActivities) = 4

\* C20: the builder stops early only when it is out of pairings: when it
\* returns fewer than target candidates, there is no element e and focus f
\* in e.motor such that (e.objectLabel, f) is absent from the returned list.
C20_StopsOnlyWhenOutOfPairings ==
    (pc = "built" /\ Len(elements) > 0 /\ Len(envActivities) < StatedTarget) =>
        \A i \in DOMAIN elements : \A f \in Range(elements[i].motor) :
            \E k \in DOMAIN envActivities :
                /\ envActivities[k].objectLabel = elements[i].objectLabel
                /\ envActivities[k].therapeuticFocus = f

(***************************************************************************)
(* Specification SpecSpread: buildActivitiesFromEnvironment called         *)
(* directly on a scene of three elements, so that a count of three asks    *)
(* for no more candidates than there are elements.                         *)
(***************************************************************************)
SpreadScene == <<"ball", "sofa", "pillow">>

InitSpread ==
    /\ pc = "enriched"
    /\ NoRequest
    /\ validatedLabels = <<>>
    /\ elements = enrichElementsWithSafety(analyzeEnvironment(SpreadScene))
    /\ age \in Ages
    /\ requestedCount \in 0..MaxRequestedCount
    /\ envActivities = <<>>
    /\ validatedActivities = <<>>
    /\ refined = <<>>

SpecSpread == InitSpread /\ [][Build]_vars

\* Element i has an affordance that no returned candidate of another
\* element uses
HasOwnUnusedAffordance(i) ==
    \E f \in Range(elements[i].motor) :
        \A k \in DOMAIN envActivities :
            envActivities[k].element /= elements[i] =>
                envActivities[k].therapeuticFocus /= f

\* C21: one focus per element where possible: whenever there are at least
\* as many elements as returned candidates and each element has an
\* affordance not used by another element's candidate, no element appears
\* in two returned candidates.
C21_OneFocusPerElement ==
    (/\ pc = "built"
     /\ Len(elements) >= Len(envActivities)
     /\ \A i \in DOMAIN elements : HasOwnUnusedAffordance(i)) =>
        \A j, k \in DOMAIN envActivities :
            j /= k => envActivities[j].element /= envActivities[k].element

(***************************************************************************)
(* Properties of whole requests (Spec): affordances and replacements.      *)
(***************************************************************************)
\* candidate.therapeuticFocus is in candidate.element.motor
FocusAfforded(c) == InSeq(c.therapeuticFocus, c.element.motor)

\* C22: every candidate returned by buildActivitiesFromEnvironment has its
\* focus in its element's motor list; and an entry of the output of
\* validateAndReplaceActivities whose focus is not in its element's motor
\* list is a safety replacement: it differs from the input candidate at the
\* same position.
C22_FocusAffordedUnlessReplaced ==
    /\ pc \in {"built", "activities_validated", "refined"} =>
          \A k \in DOMAIN envActivities : FocusAfforded(envActivities[k])
    /\ pc \in {"activities_validated", "refined"} =>
          \A k \in DOMAIN validatedActivities :
              ~FocusAfforded(validatedActivities[k]) =>
                  /\ k \in DOMAIN envActivities
                  /\ validatedActivities[k] /= envActivities[k]

\* The validator replaced a forceful focus on the table by
\* sensory_regulation, which the table's motor list does not hold
C22_TableGivenUnaffordedFocus ==
    /\ pc = "activities_validated"
    /\ \E k \in DOMAIN validatedActivities :
          /\ validatedActivities[k].objectLabel = "table"
          /\ validatedActivities[k].therapeuticFocus = SR
          /\ ~FocusAfforded(validatedActivities[k])
          /\ envActivities[k].objectLabel = "table"
          /\ FocusAfforded(envActivities[k])

(***************************************************************************)
(* Specification SpecPlayroom: whole requests on a room of four pieces of  *)
(* heavy furniture and a ball, the ball standing in constrained space.     *)
(***************************************************************************)
Playroom == <<Detection("sofa", 90), Detection("couch", 85), Detection("bed", 80),
              Detection("table", 75), Detection("ball", 70)>>

InitPlayroom ==
    /\ pc = "received"
    /\ predictions = Playroom
    /\ age \in Ages
    /\ requestedCount = ROUTE_ACTIVITY_COUNT
    /\ Fresh

SpecPlayroom == InitPlayroom /\ [][Next]_vars

\* The element's motor list holds a focus that does not need open space
AffordsFocusWithoutSpace(element) ==
    \E f \in Range(element.motor) : ~InSeq(f, NEEDS_SPACE)

\* C23: constrained-space rule of refineActivities: in the refined output,
\* no activity whose element has space = constrained has focus gross_motor
\* or motor_planning when that element's motor list contains a focus that
\* does not need open space.
C23_NoSpaceFocusInConstrainedSpace ==
    pc = "refined" =>
        \A k \in DOMAIN refined :
            (/\ refined[k].element.space = "constrained"
             /\ AffordsFocusWithoutSpace(refined[k].element)) =>
                refined[k].therapeuticFocus \notin {GM, MP}

(***************************************************************************)
(* Properties of refineActivities (SpecRefine): the under-4 rule.          *)
(***************************************************************************)
\* The focuses of the element's motor list among sensory_regulation,
\* fine_motor, gross_motor and bilateral_coordination, in the list's order
PreferredUnderFour(element) ==
    SelectSeq(element.motor, LAMBDA f : f \in {SR, FM, GM, BC})

\* C24: under-4 rule of refineActivities: for age < 4, no activity of the
\* refined output has focus executive_function or motor_planning when its
\* element's motor list holds one of sensory_regulation, fine_motor,
\* gross_motor, bilateral_coordination; and where the rule substitutes (the
\* candidate came in with executive_function or motor_planning and the
\* space rule did not act on it), the substituted focus is the first such
\* focus of the element's motor list.
C24_UnderFourRule ==
    (pc = "refined" /\ age < 4) =>
        \A k \in DOMAIN refined :
            LET r == refined[k]
                c == validatedActivities[OriginIndex(r)]
                preferred == PreferredUnderFour(r.element)
            IN Len(preferred) > 0 =>
                  /\ r.therapeuticFocus \notin {EF, MP}
                  /\ (/\ c.therapeuticFocus \in {EF, MP}
                      /\ ~(c.element.space = "constrained"
                           /\ c.therapeuticFocus \in {GM, MP})) =>
                         r.therapeuticFocus = preferred[1]

\* At age 2 a ball came in with executive_function, which its motor list
\* does not hold, and left with gross_motor, the first preferred focus of
\* that list
C24_BallExecutiveToGrossMotor ==
    /\ pc = "refined"
    /\ age = 2
    /\ \E k \in DOMAIN refined :
          /\ refined[k].objectLabel = "ball"
          /\ validatedActivities[OriginIndex(refined[k])].therapeuticFocus = EF
          /\ refined[k].therapeuticFocus = GM
          /\ refined[k].element.motor = <<GM, BC, MP>>

(***************************************************************************)
(* Specification SpecReason: reasonOverDetections called directly, on one  *)
(* detection of every probability and on short lists in which a            *)
(* normalized label repeats.                                               *)
(***************************************************************************)
MaxReasonDetections == 2

\* Curated labels of high (sofa), middle (tv) and low (library table)
\* relevance, a second spelling of tv, an environment-like label (room), a
\* label that is only hedged (zebra) and a generic one (thing)
ReasonLabels == {"sofa", "tv", "TV, telly", "library table", "room", "zebra", "thing"}

InitReason ==
    /\ pc = "filtered"
    /\ NoCall
    /\ ServerIdle
    /\ predictions = <<>>
    /\ filteredPredictions \in
           {<<Detection(l, p)>> : l \in ReasonLabels, p \in 0..100}
           \cup SeqsUpTo({Detection(l, p) : l \in ReasonLabels, p \in {0, 50, 100}},
                         MaxReasonDetections)
    /\ age = 2    \* reasonOverDetections takes no age
    /\ requestedCount = ROUTE_ACTIVITY_COUNT
    /\ reasonedElements = <<>>
    /\ validatedLabels = <<>>
    /\ validatedReasonedElements = <<>>
    /\ elements = <<>>
    /\ envActivities = <<>>
    /\ validatedActivities = <<>>
    /\ refined = <<>>

SpecReason == InitReason /\ [][Reason]_vars

\* The first detection of the input whose normalized label is that of r
FirstWithLabelOf(r) ==
    filteredPredictions[CHOOSE i \in DOMAIN filteredPredictions :
        /\ norm(filteredPredictions[i].className) = norm(r.rawLabel)
        /\ \A j \in 1..(i - 1) :
              norm(filteredPredictions[j].className) /= norm(r.rawLabel)]

\* C25: reasonOverDetections deduplicates by normalized label, first
\* occurrence winning: the output has at most one element per normalized
\* label, and each element is built from the first detection of the input
\* that has its normalized label, never from a later one.
C25_FirstOccurrenceWins ==
    pc = "reasoned" =>
        /\ \A i, j \in DOMAIN reasonedElements :
              i /= j => norm(reasonedElements[i].rawLabel)
                            /= norm(reasonedElements[j].rawLabel)
        /\ \A i \in DOMAIN reasonedElements :
              LET first == FirstWithLabelOf(reasonedElements[i])
              IN <<reasonedElements[i]>>
                     = interpretOne(first.className, first.probability)

\* min(1, round(0.6 * probability + 0.4 * weight, 2)) in hundredths, for a
\* probability and a weight in hundredths: the integer nearest to
\* (60 * probability + 40 * weight) / 100, at most 100
StatedConfidence(probability, weight) ==
    LET nearest == CHOOSE c \in 0..200 :
                       /\ 100 * c - 50 <= 60 * probability + 40 * weight
                       /\ 60 * probability + 40 * weight < 100 * c + 50
    IN IF nearest > 100 THEN 100 ELSE nearest

\* C26: for detections with probability in [0, 1], every element emitted by
\* reasonOverDetections has confidenceAfterProcessing in [0.35, 1]; it is
\* built from a detection of its raw label and its confidence is
\* min(1, round(0.6 * probability + 0.4 * relevanceWeight, 2)) when the
\* match is curated and that value scaled down, never up, when the element
\* is synthesized or hedge-named.
C26_ConfidenceInRangeFromFormula ==
    pc = "reasoned" =>
        \A i \in DOMAIN reasonedElements :
            LET r == reasonedElements[i]
            IN /\ r.confidenceAfterProcessing >= 3500
               /\ r.confidenceAfterProcessing <= 10000
               /\ \E k \in DOMAIN filteredPredictions :
                     LET stated == StatedConfidence(filteredPredictions[k].probability,
                                                    relevanceWeight(norm(r.rawLabel)))
                     IN /\ filteredPredictions[k].className = r.rawLabel
                        /\ IF r.kind = "curated"
                           THEN r.confidenceAfterProcessing = 100 * stated
                           ELSE r.confidenceAfterProcessing < 100 * stated

\* The reasoner emitted a curated element at the top of the range (sofa at
\* probability 1, confidence 1) next to a hedge-named one scaled down from
\* 0.9 to 0.54 (zebra at probability 1)
C26_CuratedAtOneAndHedged ==
    /\ pc = "reasoned"
    /\ \E i, j \in DOMAIN reasonedElements :
          /\ reasonedElements[i].kind = "curated"
          /\ reasonedElements[i].confidenceAfterProcessing = 10000
          /\ reasonedElements[j].kind = "hedged"
          /\ reasonedElements[j].confidenceAfterProcessing = 5400

(***************************************************************************)
(* Specification SpecServer: concurrent POST requests in one process, as   *)
(* far as the detection-model handle.  JavaScript runs each stretch of a   *)
(* handler between two awaits without interruption, so there is one action *)
(* per await of POST; what a request computes after classify is local to   *)
(* it and is not kept here.                                                *)
(***************************************************************************)
\* The variables of the single-request pipeline
pipeline == <<pc, predictions, age, requestedCount, filteredPredictions, reasonedElements,
              validatedLabels, validatedReasonedElements, elements,
              envActivities, validatedActivities, refined, args, returned>>

\* A getModel without the test of modelPromise
getModelAlwaysLoading(promise, loaded) ==
    [modelPromise |-> Len(loaded) + 1,
     loads |-> Append(loaded, "pending"),
     returns |-> Len(loaded) + 1]

\* getModel on modelPromise = promise with the loads made so far: the new
\* modelPromise, the loads, and the promise returned
getModel(promise, loaded) ==
    IF promise = 0
    THEN [modelPromise |-> Len(loaded) + 1,
          loads |-> Append(loaded, "pending"),
          returns |-> Len(loaded) + 1]
    ELSE [modelPromise |-> promise, loads |-> loaded, returns |-> promise]

\* Request r moves to the await `at`
Suspend(r, at) == requests' = [requests EXCEPT ![r].at = at]

\* return NextResponse.json(...): the request is over
Respond(r) == requests' = [requests EXCEPT ![r] = [at |-> "responded", awaited |-> 0]]

\* POST is called and suspends on req.formData()
Arrive(r) ==
    /\ requests[r].at = "idle"
    /\ Suspend(r, "formData")
    /\ UNCHANGED <<pipeline, modelPromise, loads>>

\* formData has settled: the request is answered 400 (no image, no valid
\* age) or 500 (formData threw), or goes on to imageFile.arrayBuffer()
AfterFormData(r) ==
    /\ requests[r].at = "formData"
    /\ \/ Respond(r)
       \/ Suspend(r, "arrayBuffer")
    /\ UNCHANGED <<pipeline, modelPromise, loads>>

\* arrayBuffer has settled: on to sharp(...).toBuffer(), or 500
AfterArrayBuffer(r) ==
    /\ requests[r].at = "arrayBuffer"
    /\ \/ Respond(r)
       \/ Suspend(r, "sharp")
    /\ UNCHANGED <<pipeline, modelPromise, loads>>

\* sharp has settled: 500, or the tensor is made and `await getModel()`
\* calls getModel and suspends on the promise it returns
AfterSharp(r) ==
    /\ requests[r].at = "sharp"
    /\ \/ /\ Respond(r)
          /\ UNCHANGED <<modelPromise, loads>>
       \/ LET got == getModel(modelPromise, loads)
          IN /\ modelPromise' = got.modelPromise
             /\ loads' = got.loads
             /\ requests' = [requests EXCEPT ![r] = [at |-> "getModel",
                                                     awaited |-> got.returns]]
    /\ UNCHANGED pipeline

\* The promise mobilenet.load returned is fulfilled or rejected
LoadSettles(p) ==
    /\ loads[p] = "pending"
    /\ \E outcome \in {"fulfilled", "rejected"} : loads' = [loads EXCEPT ![p] = outcome]
    /\ UNCHANGED <<pipeline, modelPromise, requests>>

\* The awaited promise has settled: on to model.classify, or 500
AfterGetModel(r) ==
    /\ requests[r].at = "getModel"
    /\ loads[requests[r].awaited] /= "pending"
    /\ IF loads[requests[r].awaited] = "fulfilled"
       THEN Suspend(r, "classify")
       ELSE Respond(r)
    /\ UNCHANGED <<pipeline, modelPromise, loads>>

\* classify has settled: the rest of POST runs to its return (200 or 500)
AfterClassify(r) ==
    /\ requests[r].at = "classify"
    /\ Respond(r)
    /\ UNCHANGED <<pipeline, modelPromise, loads>>

\* The response is sent; the process may be given another request
Leave(r) ==
    /\ requests[r].at = "responded"
    /\ requests' = [requests EXCEPT ![r] = [at |-> "idle", awaited |-> 0]]
    /\ UNCHANGED <<pipeline, modelPromise, loads>>

InitServer ==
    /\ pc = "serving"
    /\ NoCall
    /\ PipelineIdle

NextServer ==
    \/ \E r \in RequestIds : Arrive(r)
    \/ \E r \in RequestIds : AfterFormData(r)
    \/ \E r \in RequestIds : AfterArrayBuffer(r)
    \/ \E r \in RequestIds : AfterSharp(r)
    \/ \E p \in DOMAIN loads : LoadSettles(p)
    \/ \E r \in RequestIds : AfterGetModel(r)
    \/ \E r \in RequestIds : AfterClassify(r)
    \/ \E r \in RequestIds : Leave(r)

SpecServer == InitServer /\ [][NextServer]_vars

\* C27: the detection-model handle is created at most once per process:
\* under any interleaving of concurrent POST requests mobilenet.load is
\* invoked at most once, and every request that awaits the model awaits
\* the one promise modelPromise holds.
C27_ModelLoadedAtMostOnce ==
    /\ Len(loads) <= 1
    /\ \A r \in RequestIds :
          requests[r].at \in {"getModel", "classify"} =>
              /\ requests[r].awaited /= 0
              /\ requests[r].awaited = modelPromise

\* Two requests are suspended on the promise of the one load while it is
\* still pending
C27_TwoRequestsAwaitOneLoad ==
    /\ Len(loads) = 1
    /\ loads[1] = "pending"
    /\ \E r1, r2 \in RequestIds :
          /\ r1 /= r2
          /\ requests[r1].at = "getModel"
          /\ requests[r2].at = "getModel"
          /\ requests[r1].awaited = requests[r2].awaited

(***************************************************************************)
(* Specification SpecBench: whole requests on a bench (large and movable,  *)
(* so only its safe alternatives may be used) and a ball.                  *)
(***************************************************************************)
MaxBenchDetections == 2

BenchDetections == {Detection("bench", 80), Detection("ball", 80)}

InitBench ==
    /\ pc = "received"
    /\ predictions \in SeqsUpTo(BenchDetections, MaxBenchDetections)
    /\ age \in Ages
    /\ requestedCount = ROUTE_ACTIVITY_COUNT
    /\ Fresh

SpecBench == InitBench /\ [][Next]_vars

\* No two entries of s share (objectLabel, therapeuticFocus)
DistinctPairs(s) ==
    \A i, j \in DOMAIN s : i /= j => PairOf(s[i]) /= PairOf(s[j])

\* C28: validateAndReplaceActivities preserves the uniqueness of pairs: if
\* no two candidates of its input share (objectLabel, therapeuticFocus),
\* no two entries of its output do.
C28_ValidatorKeepsPairsDistinct ==
    (pc \in {"activities_validated", "refined"} /\ DistinctPairs(envActivities)) =>
        DistinctPairs(validatedActivities)

(***************************************************************************)
(* Properties of refineActivities (SpecRefine): safety after refinement.   *)
(***************************************************************************)
\* C29: refinement never undoes safety: when every candidate given to
\* refineActivities passes isActivitySafe for its element's safety
\* metadata, every entry of the output passes it too.
C29_RefinementKeepsSafety ==
    (/\ pc = "refined"
     /\ \A k \in DOMAIN validatedActivities : CandidateIsSafe(validatedActivities[k], age)) =>
        \A k \in DOMAIN refined : CandidateIsSafe(refined[k], age)

(***************************************************************************)
(* Properties of whole requests (Spec): labels and reasoned elements.      *)
(***************************************************************************)
\* C30: every label validateDetectedElements returns has a ReasonedElement
\* among the reasoned elements it returns (same rawLabel, confidence at
\* least 0.4); the returned reasoned elements hold no rawLabel outside the
\* returned labels; and they stand in the order of the labels.  So a label
\* the reasoner dropped does not reach analyzeEnvironment.
C30_LabelsMatchReasonedElements ==
    pc \notin {"received", "filtered", "reasoned"} =>
        /\ \A i \in DOMAIN validatedLabels :
              \E k \in DOMAIN validatedReasonedElements :
                  /\ validatedReasonedElements[k].rawLabel = validatedLabels[i]
                  /\ validatedReasonedElements[k].confidenceAfterProcessing >= 4000
        /\ \A k \in DOMAIN validatedReasonedElements :
              validatedReasonedElements[k].rawLabel \in Range(validatedLabels)
        /\ \A j, k \in DOMAIN validatedReasonedElements :
              j < k => IndexOf(validatedLabels, validatedReasonedElements[j].rawLabel)
                           <= IndexOf(validatedLabels, validatedReasonedElements[k].rawLabel)

====
